---- MODULE Spec2Model ----
(***************************************************************************)
(* Conversation orchestration of the voice assistant, for one call         *)
(* (one CallSid) on the media-stream path:                                 *)
(*   POST /twilio/voice   -> initializeConversation                        *)
(*   media stream 'start' -> generateGreeting                              *)
(*   final transcript     -> onTranscript -> processInput                  *)
(*   POST /twilio/status  -> handleCallEnded                               *)
(* Every `await` of the source is a step boundary: the handlers of one     *)
(* call interleave at their awaits and nowhere else (one JS thread).       *)
(* The session store (redis) and the call_logs row are the shared state.   *)
(*                                                                         *)
(* The INSERT of callLogModel.create is taken to insert a row of status    *)
(* 'in-progress' (its literal is written unquoted in the source), and      *)
(* `twiml.says` of POST /voice (twilio.ts 45) is taken as `twiml.say`.     *)
(***************************************************************************)
EXTENDS Integers, Sequences, FiniteSets, TLC

\* ---- bounds of the model ----
MaxTranscripts == 2      \* final transcripts of a call that is not ended
MaxCallTranscripts == 1  \* final transcripts of a call that may be ended
MaxStops == 1            \* terminal status callbacks delivered
MaxInterims == 1         \* interim transcripts delivered
MaxSpeechResults == 1    \* POSTs to /voice-simple that carry a SpeechResult
MaxProbes == 8           \* availability checks made by one slot search

\* ---- values ----
NoDuration == -1                      \* SQL NULL / JS undefined duration
NoText == "NULL"                      \* SQL NULL / JS undefined text
\* what POST /status hands to handleCallEnded: a terminal CallStatus and
\* parseInt(CallDuration || '0')
StopEvents == [status : {"completed", "failed"}, duration : {0, 142}]
\* the actions of the vocabulary by what they do to the session: end_call
\* finalizes, update_customer_name writes the session, check_availability
\* (as the others) leaves it alone
Actions == {"end_call", "update_customer_name", "check_availability"}

\* the functions offered to the reasoning engine (tools)
Vocabulary ==
    {"check_availability", "create_reservation", "modify_reservation",
     "cancel_reservation", "get_customer_reservations",
     "update_customer_name", "answer_faq", "transfer_to_human", "end_call"}

\* names the engine may answer with that are none of the offered ones
OtherNames == {"cancle_reservation", "get_customer_name", "book_table"}

Names == Vocabulary \cup OtherNames

\* the members of the default export of models/customer.ts
CustomerModel ==
    {"findOrCreate", "findByPhone", "findById", "getCustomerWithHistory",
     "search", "update", "updateName", "incrementReservationCount",
     "addNote"}

\* the members of the default export of models/reservation.ts
ReservationModel ==
    {"checkAvailability", "create", "findById", "findByConfirmationCode",
     "findUpcomingByCustomer", "findByDate", "findByCustomerPhone", "modify",
     "cancel", "markCompleted", "markNoShow", "confirm", "getStats"}

\* the store calls of handleCreateReservation, and none of them
StoreCalls == {"create", "increment", "link"}
NoCall == "none"
NoId == 0                                \* SQL NULL reservation_id

NoSession ==
    [present |-> FALSE, currentStep |-> "none", messageHistory |-> <<>>,
     full_name |-> "none", upcomingReservations |-> <<>>, ttl |-> 0]

\* `let greeting: string` of generateGreeting before any branch assigns it
Undefined == [said |-> FALSE, name |-> NoText, date |-> NoText,
              time |-> NoText]

NoRow ==
    [present |-> FALSE, status |-> NoText, duration |-> NoDuration,
     transcript |-> <<>>, summary |-> NoText, intent |-> NoText,
     sentiment |-> NoText, reservation_id |-> NoId,
     was_transferred |-> FALSE, transfer_reason |-> NoText]

VARIABLES
    session,        \* redis key session:<CallSid> (NoSession when absent)
    callLog,        \* the call_logs row of the CallSid (NoRow when absent)
    isProcessing,   \* per-connection flag of setupMediaStreamWebSocket
    streamStarted,  \* 'start' handled: callSid bound, transcription created
    callStarted,    \* POST /voice answered with <Connect><Stream>
    initPc,         \* position of initializeConversation
    initOutcome,    \* how the last initializeConversation ended
    gPc, gLocal, gAudio,            \* generateGreeting and its session copy
    gText,          \* its greeting: what the text says and whom, which
                    \* date and which time it mentions
    pair,           \* two concurrent calls that are looked at together
    tPc, tLocal, tId, tAction,      \* onTranscript / processInput
    tText, tAudio, tShouldEnd, tOutcome,
    tFailed,        \* the upstream calls of the turn's action that failed
    tResult,        \* what executeFunctionCall returned: success or failure
    reservations,   \* rows this call inserted into the reservations table
    totalReservations,  \* increments of the caller's total_reservations
    tHanded,        \* the last turn ended with its audio sent on the socket
    avail,          \* a check_availability that is looked at on its own
    tShouldTransfer,\* the result of the turn's action has shouldTransfer
    redirected,     \* transferCall has sent the <Dial> update for the call
    ePc, eLocal, eStatus, eDuration,\* handleCallEnded
    turns, dropped, rounds, stops,
    endCallDone,    \* handleEndCall has deleted the session (history variable)
    eAfterEndCall,  \* this handleCallEnded began once endCallDone held
    interims,       \* interim transcripts delivered to onInterim
    interimAt,      \* where the turn was when the last of them arrived
    sPc, sLocal, sId, sText,        \* processInput run by POST /voice-simple
    speeches,       \* POSTs to /voice-simple with a SpeechResult
    plainCall       \* so far: the greeting first, then turns one after the
                    \* other, each answered with text and none ending the call

vars == <<session, callLog, isProcessing, streamStarted, callStarted, initPc,
          initOutcome, gPc, gLocal, gAudio, tPc, tLocal, tId, tAction, tText,
          tAudio, tShouldEnd, tOutcome, tFailed, tHanded, ePc, eLocal, eStatus,
          eDuration, turns, dropped, rounds, stops, endCallDone, eAfterEndCall,
          plainCall, interims, interimAt, sPc, sLocal, sId, sText,
          speeches, tResult, reservations, totalReservations,
          tShouldTransfer, redirected, avail, gText, pair>>

\* the check_availability looked at:
aPc == avail.aPc            \* position of handleCheckAvailability
aArgs == avail.aArgs        \* its arguments: date, time, party size
aEnv == avail.aEnv          \* process environment and clock of the server
slots == avail.slots        \* reservation store on the requested date: the
                            \* hours whose slot is fully booked or blocked
aStack == avail.aStack      \* findAlternativeSlots calls not yet returned
probes == avail.probes      \* checkAvailability calls made by the search
aResult == avail.aResult    \* what handleCheckAvailability returned

\* the two calls looked at together:
sessions == pair.sessions   \* the keys session:<CallSid> of the two calls
conns == pair.conns         \* the media-stream connection of each call
answered == pair.answered   \* the calls whose POST /voice has been handled
ended == pair.ended         \* the calls whose terminal status was handled

initVars == <<initPc, initOutcome, callStarted>>
greetVars == <<gPc, gLocal, gAudio, gText>>
turnVars == <<tPc, tLocal, tId, tAction, tText, tAudio, tShouldEnd, tOutcome,
              tFailed, tHanded, tShouldTransfer>>
endVars == <<ePc, eLocal, eStatus, eDuration, stops, eAfterEndCall>>
interimVars == <<interims, interimAt>>
simpleVars == <<sPc, sLocal, sId, sText, speeches>>
availVars == <<avail>>
pairVars == <<pair>>
otherVars == <<interimVars, simpleVars, availVars, pairVars>>
storeVars == <<reservations, totalReservations>>
auxVars == <<otherVars, storeVars, tResult, redirected>>
histVars == <<endCallDone, plainCall>>
countVars == <<turns, dropped, rounds>>
lineVars == <<session, callLog, isProcessing, streamStarted, initVars,
              greetVars, turnVars, endVars, interimVars, simpleVars,
              storeVars, tResult, redirected, countVars, histVars>>

\* ------------------------------------------------------------------------
\* Session store (src/config/redis.ts)
\* ------------------------------------------------------------------------
Message(role, turn) == [role |-> role, turn |-> turn]

\* const SESSION_TTL = 3600, in seconds
SESSION_TTL == 3600

\* what the clock of the store advances by in one step, in seconds
ClockStep == 1200

\* getSession: GET and JSON.parse give the value of the key; its remaining
\* lifetime is no part of it
getSession(s) == [s EXCEPT !.ttl = 0]

\* (variant: SET with KEEPTTL, the key keeps the expiry it had)
setSessionKeepTtl(s) == [s EXCEPT !.present = TRUE]

\* setSession: SETEX overwrites (or creates) the key unconditionally and
\* sets its expiry to SESSION_TTL
setSession(s) == [s EXCEPT !.present = TRUE, !.ttl = SESSION_TTL]

\* (variant: the message is not pushed before the session is saved)
addMessageNoPush(s, m) == setSession(s)

\* addMessage, after its getSession returned s: push, then setSession
addMessage(s, m) ==
    setSession([s EXCEPT !.messageHistory = Append(@, m)])

\* updateSessionState, after its getSession returned s
updateSessionState(s, step) == setSession([s EXCEPT !.currentStep = step])

\* updateSession, after its getSession returned s
updateSession(s, name) == setSession([s EXCEPT !.full_name = name])

\* (variant: a key without expiry)
elapseKept(s, seconds) == s

\* the store after `seconds` have passed: the key's remaining lifetime has
\* dropped, and a key whose lifetime is over is gone
elapse(s, seconds) ==
    IF s.ttl > seconds THEN [s EXCEPT !.ttl = @ - seconds] ELSE NoSession

\* (variant: the key is left in the store)
deleteSessionSkipped(s) == s

\* deleteSession: DEL of the key
deleteSession(s) == NoSession

\* ------------------------------------------------------------------------
\* Call log (callLogModel, src/utils/helpers.ts)
\* ------------------------------------------------------------------------
\* `x || null` on a number: 0 and undefined both become NULL
OrNullNum(x) == IF x = 0 \/ x = NoDuration THEN NoDuration ELSE x

\* `data.reservationId || null`: 0 and undefined both become NULL
OrNullId(x) == IF x = NoId THEN NoId ELSE x

\* `x || null` on a string: '' and undefined both become NULL
OrNullText(x) == IF x = "" \/ x = NoText THEN NoText ELSE x

\* m => `[${m.role}]: ${m.content}`, joined by '\n'
Flatten(h) == [i \in 1..Len(h) |-> [speaker |-> h[i].role, turn |-> h[i].turn]]

\* (variant: call_sid without its UNIQUE constraint)
CallLogCreateNoUnique(row) == FALSE

\* callLogModel.create: INSERT; call_sid is UNIQUE
CallLogCreateFails(row) == row.present

NewRow == [NoRow EXCEPT !.present = TRUE, !.status = "in-progress"]

\* callLogModel.completeCall: UPDATE ... WHERE call_sid = $1 with every
\* field as `data.x || null` (a NULL transcript reads as the empty one)
completeCall(row, data) ==
    IF ~row.present THEN row
    ELSE [row EXCEPT !.status = data.status,
                     !.duration = OrNullNum(data.durationSeconds),
                     !.transcript = data.transcript,
                     !.summary = OrNullText(data.summary),
                     !.intent = OrNullText(data.intent),
                     !.sentiment = OrNullText(data.sentiment),
                     !.reservation_id = OrNullId(data.reservationId)]

\* callLogModel.appendToTranscript: COALESCE(transcript,'') || line
appendToTranscript(row, speaker, turn) ==
    IF ~row.present THEN row
    ELSE [row EXCEPT !.transcript =
              Append(@, [speaker |-> speaker, turn |-> turn])]

\* ------------------------------------------------------------------------
\* check_availability: validation (src/utils/helpers.ts) and the slot
\* search (src/models/reservation.ts).  A string is the sequence of its
\* characters, a character its rank in the order of the code units:
\* the digits, then ':', then the letters.
\* ------------------------------------------------------------------------
Colon == 10
Letter == 11

\* the string "HH:MM" of two-digit hours and minutes
HHMM(h, m) == <<h \div 10, h % 10, Colon, m \div 10, m % 10>>

\* a < b on JS strings: the first differing code unit decides, a proper
\* prefix is smaller
StrLess(a, b) ==
    \/ \E k \in 1..Len(a) :
          /\ k <= Len(b)
          /\ \A j \in 1..(k - 1) : a[j] = b[j]
          /\ a[k] < b[k]
    \/ /\ Len(a) < Len(b)
       /\ \A j \in 1..Len(a) : a[j] = b[j]

IsDigit(c) == c \in 0..9

\* /^\d{2}:\d{2}$/.test(time)
TimeFormat(t) ==
    /\ Len(t) = 5 /\ t[3] = Colon
    /\ IsDigit(t[1]) /\ IsDigit(t[2]) /\ IsDigit(t[4]) /\ IsDigit(t[5])

\* the string is a time of day ($2::time casts it)
RealTime(t) == TimeFormat(t) /\ 10 * t[1] + t[2] < 24 /\ 10 * t[4] + t[5] < 60

\* time.split(':').map(Number) of a string that has the format
HoursOf(t) == 10 * t[1] + t[2]
MinutesOf(t) == 10 * t[4] + t[5]

\* parseInt(s.split(':')[0]) of "H:MM" or "HH:MM"
HourPart(s) == IF s[2] = Colon THEN s[1] ELSE 10 * s[1] + s[2]

\* the time arguments looked at: "09:00" ... "13:30", "12:75" and "7pm"
Times ==
    {HHMM(9, 0), HHMM(10, 0), HHMM(11, 30), HHMM(12, 0), HHMM(12, 30),
     HHMM(13, 0), HHMM(13, 30), HHMM(12, 75), <<7, Letter, Letter>>}

\* the date arguments looked at.  shape: it matches /^\d{4}-\d{2}-\d{2}$/;
\* real: it is a date of the calendar (new Date(date) is no Invalid Date);
\* day: its distance from today in days
Dates ==
    {[name |-> "June 1st", shape |-> FALSE, real |-> FALSE, day |-> 1],
     [name |-> "2025-13-45", shape |-> TRUE, real |-> FALSE, day |-> 1],
     [name |-> "yesterday", shape |-> TRUE, real |-> TRUE, day |-> -1],
     [name |-> "today", shape |-> TRUE, real |-> TRUE, day |-> 0],
     [name |-> "tomorrow", shape |-> TRUE, real |-> TRUE, day |-> 1]}

\* parseInt(String(args.party_size)) of the arguments looked at: "four"
\* gives NaN, the others the number
NaN == -1000
PartySizes == {NaN, 0, 4, 25}

\* process.env.MAX_PARTY_SIZE || '20'
MaxPartySize == 20

\* the environments looked at.  configured: BUSINESS_OPENING_HOUR and
\* BUSINESS_CLOSING_HOUR are set, to "10:00" and "13:00"; west: the
\* server's time zone is behind UTC; now: the hour of its clock
Envs == [configured : BOOLEAN, west : BOOLEAN, now : {9, 12}]

\* process.env.BUSINESS_OPENING_HOUR || '8:00' of validateReservation
OpeningTime(env) ==
    IF env.configured THEN HHMM(10, 0) ELSE <<8, Colon, 0, 0>>

\* process.env.BUSINESS_CLOSING_HOUR || '17:00' of validateReservation
ClosingTime(env) ==
    IF env.configured THEN HHMM(13, 0) ELSE HHMM(17, 0)

\* parseInt(process.env.BUSINESS_OPENING_HOUR?.split(':')[0] || '8')
openingHour(env) == IF env.configured THEN HourPart(HHMM(10, 0)) ELSE 8

\* parseInt(process.env.BUSINESS_CLOSING_HOUR?.split(':')[0] || '16')
closingHour(env) == IF env.configured THEN HourPart(HHMM(13, 0)) ELSE 16

\* isDateInPast: new Date(dateStr), midnight UTC of the date, is before
\* the local midnight of today; an Invalid Date is before nothing
isDateInPast(date, env) ==
    /\ date.real
    /\ \/ date.day < 0
       \/ date.day = 0 /\ env.west

\* isTimeInPast for today's date: new Date(dateStr) with setHours(hours,
\* minutes) in local time, which is on the previous local day when the
\* zone is behind UTC, is before new Date()
isTimeInPast(time, env) ==
    \/ env.west
    \/ HoursOf(time) < env.now

\* validateReservation (helpers.ts 229-265): the error, or "valid"
validateReservation(date, time, env) ==
    IF ~date.shape THEN "Invalid date format"
    ELSE IF ~TimeFormat(time) THEN "Invalid time format"
    ELSE IF isDateInPast(date, env)
    THEN "Cannot make reservations for past dates"
    ELSE IF date.real /\ date.day = 0 /\ isTimeInPast(time, env)
    THEN "that time has already passed today"
    ELSE IF StrLess(time, OpeningTime(env)) \/ StrLess(ClosingTime(env), time)
    THEN "we're only open from ... to ..."
    ELSE "valid"

\* (variant: every party size is accepted)
validatePartySizeAny(size) == "valid"

\* validatePartySize (helpers.ts 209-225): the error, or "valid"
validatePartySize(size) ==
    IF size = NaN THEN "party size must be a whole number"
    ELSE IF size < 1 THEN "Party size must be at least 1 "
    ELSE IF size > MaxPartySize THEN "Party size cannot exceed ..."
    ELSE "valid"

\* const offsets = [1, -1, 2, -2, 3, -3];
offsets == <<1, -1, 2, -2, 3, -3>>

\* the stores looked at: any set of fully booked slots between 10 and 13
\* o'clock, and at most one blocked hour
Stores ==
    [booked : SUBSET (10..13),
     blocked : {{}} \cup {{h} : h \in 11..13}]

\* what checkAvailability (reservation.ts 15-69) finds for a slot before
\* it searches: the date/time is blocked, the slot has room, or it is full
slotState(store, hour) ==
    IF hour \in store.blocked THEN "blocked"
    ELSE IF hour \in store.booked THEN "full"
    ELSE "free"

\* a call of findAlternativeSlots: the preferred hour, the index of the
\* offset its loop is at, and the alternatives it has collected
Frame(hour) == [hour |-> hour, i |-> 1, alternatives |-> <<>>]

NoResult == [kind |-> "none", error |-> "none", alternativeSlots |-> <<>>]

\* the CallSids of two calls that are in progress together
CallSids == {"CA1", "CA2"}

\* wss.on('connection'): let callSid = null, let isProcessing = false; with
\* them the position of processInput on that connection and the transcripts
\* its transcription has delivered
NoConn ==
    [callSid |-> NoCall, isProcessing |-> FALSE,
     tPc |-> "idle", tLocal |-> NoSession,
     turns |-> 0, dropped |-> 0]

\* ------------------------------------------------------------------------
CallInit ==
    /\ session = NoSession
    /\ callLog = NoRow
    /\ isProcessing = FALSE
    /\ streamStarted = FALSE
    /\ callStarted = FALSE
    /\ initPc = "idle" /\ initOutcome = "none"
    /\ gPc = "idle" /\ gLocal = NoSession /\ gAudio = FALSE
    /\ gText = Undefined
    /\ tPc = "idle" /\ tLocal = NoSession /\ tId = 0 /\ tAction = "none"
    /\ tText = FALSE /\ tAudio = FALSE /\ tShouldEnd = FALSE
    /\ tOutcome = "none" /\ tFailed = {} /\ tHanded = FALSE
    /\ ePc = "idle" /\ eLocal = NoSession /\ eStatus = "none"
    /\ eDuration = NoDuration
    /\ turns = 0 /\ dropped = 0 /\ rounds = 0 /\ stops = 0
    /\ endCallDone = FALSE /\ eAfterEndCall = FALSE /\ plainCall = TRUE
    /\ interims = 0 /\ interimAt = "none"
    /\ sPc = "idle" /\ sLocal = NoSession /\ sId = 0 /\ sText = FALSE
    /\ speeches = 0
    /\ tResult = "none" /\ reservations = 0 /\ totalReservations = 0
    /\ tShouldTransfer = FALSE /\ redirected = FALSE

\* no second call is looked at
PairOff == pair = <<>>

\* two calls, neither answered yet
TwoCalls ==
    pair = [sessions |-> [k \in CallSids |-> NoSession],
            conns |-> [c \in CallSids |-> NoConn],
            answered |-> {}, ended |-> {}]

\* no check_availability is looked at
AvailOff ==
    avail = <<>>

Init == CallInit /\ AvailOff /\ PairOff

\* ------------------------------------------------------------------------
\* POST /twilio/voice -> initializeConversation (conversation.ts 32-75)
\* ------------------------------------------------------------------------
\* the webhook is delivered: findOrCreate, findUpcomingByCustomer (reads of
\* the customer store), then await callLogModel.create(...).  An error is
\* answered with <Hangup>, after which the webhook is not delivered again.
InitCreateLog(again) ==
    /\ initPc = "idle"
    /\ initOutcome = "none" \/ (again /\ initOutcome = "ok")
    /\ IF CallLogCreateFails(callLog)
       THEN /\ initPc' = "idle" /\ initOutcome' = "error"
            /\ UNCHANGED callLog
       ELSE \/ /\ callLog' = NewRow
               /\ initPc' = "set" /\ initOutcome' = "running"
            \/ /\ initPc' = "idle" /\ initOutcome' = "error" \* a store failed
               /\ UNCHANGED callLog
    /\ UNCHANGED <<session, isProcessing, streamStarted, callStarted,
                   greetVars, turnVars, endVars, auxVars, countVars, histVars>>

\* rows of the reservations table that findUpcomingByCustomer can return
NextReservation ==
    [reservation_date |-> "2025-06-01", reservation_time |-> "19:00"]

LaterReservation ==
    [reservation_date |-> "2025-06-08", reservation_time |-> "12:30"]

\* findUpcomingByCustomer: ORDER BY reservation_date, reservation_time
UpcomingLists ==
    {<<>>, <<NextReservation>>, <<LaterReservation>>,
     <<NextReservation, LaterReservation>>}

\* who calls: the stored name (none for a new customer) and the upcoming
\* reservations loaded by initializeConversation
Callers == [full_name : {"none", "old"}, upcoming : UpcomingLists]

\* `reservationModel.length > 0`: length is read from the default export of
\* models/reservation, which has no property of that name; undefined > 0
\* is false
lengthPositive(model) == "length" \in model

\* the branches of generateGreeting that assign `greeting`; there is no
\* final else
greeting(s) ==
    IF s.full_name # "none" /\ lengthPositive(ReservationModel)
    THEN [said |-> TRUE, name |-> s.full_name,
          date |-> s.upcomingReservations[1].reservation_date,
          time |-> s.upcomingReservations[1].reservation_time]
    ELSE IF s.full_name # "none"
         THEN [Undefined EXCEPT !.said = TRUE]
         ELSE Undefined

\* await redis.setSession(callSid, session); the route answers with the stream
InitSetSessionOf(callers) ==
    /\ initPc = "set"
    /\ \E c \in callers :
         session' = setSession([NoSession EXCEPT
                                   !.currentStep = "greeting",
                                   !.full_name = c.full_name,
                                   !.upcomingReservations = c.upcoming])
    /\ initPc' = "idle"
    /\ callStarted' = TRUE
    /\ initOutcome' = "ok"
    /\ UNCHANGED <<callLog, isProcessing, streamStarted,
                   greetVars, turnVars, endVars, auxVars, countVars, histVars>>

\* the call of a caller whose name is stored and who has no reservation
InitSetSession == InitSetSessionOf({[full_name |-> "old", upcoming |-> <<>>]})

\* the call of any caller
InitSetSessionAny == InitSetSessionOf(Callers)

\* the webhook of a call, which the transport may deliver again
VoiceWebhook == InitCreateLog(TRUE)

\* the webhook of a call, delivered once
VoiceWebhookOnce == InitCreateLog(FALSE)

\* ------------------------------------------------------------------------
\* media stream 'start' -> generateGreeting (twilio.ts 205-261,
\* conversation.ts 80-124)
\* ------------------------------------------------------------------------
StreamStart ==
    /\ callStarted /\ ~streamStarted
    /\ streamStarted' = TRUE
    /\ gPc' = "get"
    /\ UNCHANGED <<session, callLog, isProcessing, initVars, gLocal, gAudio,
                   gText,
                   turnVars, endVars, auxVars, countVars, histVars>>

\* const session = await redis.getSession(callSid); if (!session) throw
GreetGet ==
    /\ gPc = "get"
    /\ gPc' = IF session.present THEN "addGet" ELSE "idle"
    /\ gText' = IF session.present THEN greeting(session) ELSE Undefined
    /\ UNCHANGED <<session, callLog, isProcessing, streamStarted, initVars,
                   gLocal, gAudio, turnVars, endVars, auxVars, countVars,
                   histVars>>

\* textToSpeech(greeting) inside its try/catch, then addMessage's getSession
GreetAddGet ==
    /\ gPc = "addGet"
    /\ \E ok \in BOOLEAN : gAudio' = ok
    /\ IF session.present
       THEN gLocal' = getSession(session) /\ gPc' = "addSet"
       ELSE gLocal' = NoSession /\ gPc' = "updGet"
    /\ UNCHANGED <<session, callLog, isProcessing, streamStarted, initVars,
                   gText, turnVars, endVars, auxVars, countVars, histVars>>

\* addMessage: push the greeting and setSession
GreetAddSet ==
    /\ gPc = "addSet"
    /\ session' = addMessage(gLocal, Message("assistant", 0))
    /\ gLocal' = NoSession
    /\ gPc' = "updGet"
    /\ UNCHANGED <<callLog, isProcessing, streamStarted, initVars,
                   gAudio, gText, turnVars, endVars, auxVars, countVars,
                   histVars>>

\* updateSessionState: its getSession
GreetUpdGet ==
    /\ gPc = "updGet"
    /\ IF session.present
       THEN gLocal' = getSession(session) /\ gPc' = "updSet" /\ UNCHANGED gAudio
       ELSE gLocal' = NoSession /\ gPc' = "idle" /\ gAudio' = FALSE
    /\ UNCHANGED <<session, callLog, isProcessing, streamStarted, initVars,
                   gText, turnVars, endVars, auxVars, countVars, histVars>>

\* updateSessionState: setSession with currentStep 'listening'; the greeting
\* returns and its audio, if any, is sent
GreetUpdSet ==
    /\ gPc = "updSet"
    /\ session' = updateSessionState(gLocal, "listening")
    /\ gLocal' = NoSession
    /\ gPc' = "idle"
    /\ gAudio' = FALSE
    /\ UNCHANGED <<callLog, isProcessing, streamStarted, initVars,
                   gText, turnVars, endVars, auxVars, countVars, histVars>>

GreetStep ==
    \/ GreetGet \/ GreetAddGet \/ GreetAddSet \/ GreetUpdGet \/ GreetUpdSet

\* ------------------------------------------------------------------------
\* final transcript -> onTranscript (twilio.ts 214-241)
\* ------------------------------------------------------------------------
\* (variant: the callback does not look at isProcessing)
TranscriptAcceptedNoGuard == streamStarted

\* if (!callSid || isProcessing) return;
TranscriptAccepted == streamStarted /\ ~isProcessing

\* (variant: the flag is reset at the end of the try block, not in finally)
GuardAfterTurnNoFinally(outcome) == outcome # "ok"

\* finally { isProcessing = false }
GuardAfterTurn(outcome) == FALSE

\* the turn goes on to its next await
Continue(pc) ==
    /\ tPc' = pc
    /\ UNCHANGED <<isProcessing, histVars, tFailed, tHanded, tShouldTransfer>>

\* the same, for a step after which the call is no plain call any more
ContinueOff(pc) ==
    /\ tPc' = pc /\ plainCall' = FALSE
    /\ UNCHANGED <<isProcessing, endCallDone, tFailed, tHanded,
                   tShouldTransfer>>

\* (variant: the response is returned without its audio being sent)
AudioDropped(outcome, audio) == FALSE

\* if (response.audio && streamSid) await sendAudioResponse(...), reached
\* when processInput returned and left when ws.send did not throw
AudioSent(outcome, audio) == outcome = "ok" /\ audio

\* the turn is over: processInput returned or threw, the catch logged it
EndTurn(outcome) ==
    /\ tPc' = "idle"
    /\ tOutcome' = outcome
    /\ isProcessing' = GuardAfterTurn(outcome)
    /\ plainCall' = (plainCall /\ outcome = "ok")
    /\ UNCHANGED endCallDone
    /\ tLocal' = NoSession /\ tId' = 0 /\ tAction' = "none" /\ tText' = FALSE
    /\ tAudio' = FALSE /\ tShouldEnd' = FALSE /\ tFailed' = {}
    /\ tHanded' = AudioSent(outcome, tAudio)
    /\ tShouldTransfer' = FALSE

OnTranscript(max) ==
    /\ streamStarted /\ turns + dropped < max
    /\ IF TranscriptAccepted
       THEN /\ isProcessing' = TRUE
            /\ turns' = turns + 1
            /\ tId' = turns + 1
            /\ tPc' = "get1"
            /\ tLocal' = NoSession /\ tAction' = "none" /\ tText' = FALSE
            /\ tAudio' = FALSE /\ tShouldEnd' = FALSE /\ tFailed' = {}
            /\ plainCall' = (plainCall /\ gPc = "idle")
            /\ UNCHANGED <<dropped, tOutcome, tHanded, endCallDone,
                           tShouldTransfer>>
       ELSE /\ dropped' = dropped + 1
            /\ UNCHANGED <<isProcessing, turns, turnVars, histVars>>
    /\ UNCHANGED <<session, callLog, streamStarted, initVars, greetVars,
                   endVars, auxVars, rounds>>

\* (variant: the interim result is handed to onTranscript as a final one is)
OnInterimAsFinal ==
    /\ streamStarted /\ interims < MaxInterims
    /\ interims' = interims + 1 /\ interimAt' = tPc
    /\ IF TranscriptAccepted
       THEN /\ isProcessing' = TRUE
            /\ turns' = turns + 1
            /\ tId' = turns + 1
            /\ tPc' = "get1"
            /\ UNCHANGED <<dropped, tLocal, tAction, tText, tAudio,
                           tShouldEnd, tOutcome, tFailed, tHanded,
                           tShouldTransfer>>
       ELSE /\ UNCHANGED <<isProcessing, turns, dropped, turnVars>>
    /\ UNCHANGED <<session, callLog, streamStarted, initVars, greetVars,
                   endVars, rounds, histVars, simpleVars, storeVars,
                   tResult, redirected, availVars, pairVars>>

\* a result with is_final false -> onInterim (twilio.ts 242-244): it is
\* logged and nothing else
OnInterim ==
    /\ streamStarted /\ interims < MaxInterims
    /\ interims' = interims + 1 /\ interimAt' = tPc
    /\ UNCHANGED <<session, callLog, isProcessing, streamStarted, initVars,
                   greetVars, turnVars, endVars, countVars, histVars,
                   simpleVars, storeVars, tResult, redirected, availVars,
                   pairVars>>

\* ------------------------------------------------------------------------
\* processInput (conversation.ts 127-226).  An await that touches neither
\* the session nor the call log is folded into the step next to it.
\* ------------------------------------------------------------------------
\* (variant: processInput without its `if (!session) throw`)
ProcGet1NoCheck ==
    /\ tPc = "get1"
    /\ Continue("addUGet")
    /\ UNCHANGED <<tLocal, tId, tAction, tText, tAudio, tShouldEnd, tOutcome>>
    /\ UNCHANGED <<session, callLog, streamStarted, initVars, greetVars,
                   endVars, auxVars, countVars>>

\* const session = await redis.getSession(callSid); if (!session) throw
ProcGet1 ==
    /\ tPc = "get1"
    /\ \/ /\ session.present
          /\ Continue("addUGet")
          /\ UNCHANGED <<tLocal, tId, tAction, tText, tAudio, tShouldEnd,
                         tOutcome>>
       \/ /\ ~session.present
          /\ EndTurn("sessionMissing")
       \/ EndTurn("failed")                       \* the store call failed
    /\ UNCHANGED <<session, callLog, streamStarted, initVars, greetVars,
                   endVars, auxVars, countVars>>

\* addMessage(user): its getSession
ProcAddUserGet ==
    /\ tPc = "addUGet"
    /\ IF session.present
       THEN tLocal' = getSession(session) /\ Continue("addUSet")
       ELSE tLocal' = NoSession /\ Continue("get2")
    /\ UNCHANGED <<session, callLog, streamStarted, initVars, greetVars,
                   endVars, auxVars, countVars, tId, tAction, tText, tAudio,
                   tShouldEnd, tOutcome>>

\* addMessage(user): push and setSession
ProcAddUserSet ==
    /\ tPc = "addUSet"
    /\ session' = addMessage(tLocal, Message("user", tId))
    /\ tLocal' = NoSession
    /\ Continue("get2")
    /\ UNCHANGED <<callLog, streamStarted, initVars, greetVars,
                   endVars, auxVars, countVars, tId, tAction, tText, tAudio,
                   tShouldEnd, tOutcome>>

\* const updatedSession = await redis.getSession(callSid); if (!..) throw;
\* const response = await openaiService.chat(...): one reasoning round
ProcChat(names) ==
    /\ tPc = "get2"
    /\ IF ~session.present
       THEN EndTurn("failed") /\ UNCHANGED rounds \* 'Session lost'
       ELSE /\ rounds' = rounds + 1
            /\ \/ EndTurn("failed")               \* chat rethrows its error
               \/ /\ \E text \in BOOLEAN :        \* free text, maybe empty
                       /\ tText' = text
                       /\ IF text THEN Continue("speak")
                                  ELSE ContinueOff("respond")
                  /\ UNCHANGED <<tLocal, tId, tAction, tAudio, tShouldEnd,
                                 tOutcome>>
               \/ /\ \E a \in names : tAction' = a    \* response.functionCall
                  /\ Continue("exec")
                  /\ UNCHANGED <<tLocal, tId, tText, tAudio, tShouldEnd,
                                 tOutcome>>
    /\ UNCHANGED <<session, callLog, streamStarted, initVars, greetVars,
                   endVars, auxVars, turns, dropped>>

\* the handler the switch of executeFunctionCall (240-271) selects for a name
Dispatch(name) ==
    CASE name = "check_availability" -> "handleCheckAvailability"
      [] name = "create_reservation" -> "handleCreateReservation"
      [] name = "modify_reservation" -> "handleModifyReservation"
      [] name = "cancle_reservation" -> "handleCancleReservation"
      [] name = "get_customer_name" -> "handleGetReservations"
      [] name = "update_customer_name" -> "handleUpdateName"
      [] name = "answer_faq" -> "handleFaq"
      [] name = "transfer_to_human" -> "handleTransfer"
      [] name = "end_call" -> "handleEndCall"
      [] OTHER -> "default"

\* session.customer of a session that was read
HasCustomer(s) == s.full_name # "none"

\* a result of a handler that changes nothing
Failure == [success |-> FALSE, persisted |-> 0, counted |-> 0,
            linked |-> FALSE, failed |-> {}]

\* handleCreateReservation (302-348) for a session read with or without a
\* customer, when the store fails the call `failing` if it is made: what
\* it returns, the rows it inserted, the increments of the counter, whether
\* it linked the call record, and the store calls that failed.  Calling a
\* member the model object does not have throws a TypeError inside the try.
handleCreateReservation(customer, failing) ==
    IF ~customer THEN Failure                   \* 'Customer not found'
    ELSE IF failing = "create"
    THEN [Failure EXCEPT !.failed = {"create"}]
    ELSE IF "incrementReservation" \notin CustomerModel
    THEN [Failure EXCEPT !.persisted = 1]
    ELSE IF failing = "increment"
    THEN [Failure EXCEPT !.persisted = 1, !.failed = {"increment"}]
    ELSE IF failing = "link"
    THEN [Failure EXCEPT !.persisted = 1, !.counted = 1,
                         !.failed = {"link"}]
    ELSE [success |-> TRUE, persisted |-> 1, counted |-> 1, linked |-> TRUE,
          failed |-> {}]

\* handleCancleReservation (384-406) for the id of a row that exists or
\* not, when the store fails the update or not: whether it returns success
handleCancleReservation(exists, fails) ==
    IF "cancle" \notin ReservationModel THEN FALSE  \* TypeError, caught
    ELSE IF fails THEN FALSE
    ELSE exists

\* callLogModel.linkReservation: UPDATE ... WHERE call_sid = $1
linkReservation(row, id) ==
    IF row.present THEN [row EXCEPT !.reservation_id = id] ELSE row

\* callLogModel.markTransferred: UPDATE ... WHERE call_sid = $1
markTransferred(row, reason) ==
    IF row.present
    THEN [row EXCEPT !.was_transferred = TRUE, !.transfer_reason = reason]
    ELSE row

\* executeFunctionCall returns `result` from a handler in which the calls
\* `failed` failed
Returns(result, failed, transfer) ==
    /\ tResult' = (IF result THEN "success" ELSE "failure")
    /\ tFailed' = failed
    /\ tShouldTransfer' = transfer
    /\ tPc' = "cont"
    /\ UNCHANGED <<isProcessing, histVars, tHanded, tLocal, tId, tAction,
                   tText, tAudio, tShouldEnd, tOutcome>>

\* the same, from a handler whose result has no shouldTransfer
Return(result, failed) == Returns(result, failed, FALSE)

\* executeFunctionCall (230-272): getSession, then the switch and, for
\* every handler but handleUpdateName and handleEndCall, the handler.
\* handleCheckAvailability, handleGetReservations, handleFaq and
\* handleTransfer await the store outside any try: its failure is thrown
\* out of the turn; handleGetReservations also throws on the first row it
\* maps (r.reservation.time).  handleCreateReservation,
\* handleModifyReservation and handleCancleReservation catch.
ProcExec ==
    /\ tPc = "exec"
    /\ LET h == Dispatch(tAction) IN
       IF ~session.present
       THEN /\ Return(FALSE, {})                  \* 'Session not found'
            /\ UNCHANGED <<callLog, storeVars>>
       ELSE CASE h = "handleEndCall" ->
                 /\ ContinueOff("endGet")
                 /\ UNCHANGED <<tLocal, tId, tAction, tText, tAudio,
                                tShouldEnd, tOutcome>>
                 /\ UNCHANGED <<callLog, storeVars, tResult>>
              [] h = "handleUpdateName" ->
                 /\ \/ /\ Continue("nameGet")
                       /\ UNCHANGED <<tLocal, tId, tAction, tText, tAudio,
                                      tShouldEnd, tOutcome>>
                    \/ EndTurn("failed")
                 /\ UNCHANGED <<callLog, storeVars, tResult>>
              [] h = "handleCreateReservation" ->
                 \E failing \in StoreCalls \cup {NoCall} :
                    LET r == handleCreateReservation(HasCustomer(session),
                                                     failing)
                    IN  /\ reservations' = reservations + r.persisted
                        /\ totalReservations' =
                              totalReservations + r.counted
                        /\ callLog' = IF r.linked
                                      THEN linkReservation(callLog,
                                                           reservations')
                                      ELSE callLog
                        /\ Return(r.success, r.failed)
              [] h = "handleModifyReservation" ->
                 /\ \E found \in BOOLEAN : Return(found, {})
                 /\ UNCHANGED <<callLog, storeVars>>
              [] h = "handleCancleReservation" ->
                 /\ \E exists \in BOOLEAN, fails \in BOOLEAN :
                       Return(handleCancleReservation(exists, fails), {})
                 /\ UNCHANGED <<callLog, storeVars>>
              [] h = "handleCheckAvailability" ->
                 /\ \/ \E valid \in BOOLEAN : Return(valid, {})
                    \/ EndTurn("failed") /\ UNCHANGED tResult
                 /\ UNCHANGED <<callLog, storeVars>>
              [] h \in {"handleGetReservations", "handleFaq"} ->
                 /\ \/ Return(TRUE, {})
                    \/ EndTurn("failed") /\ UNCHANGED tResult
                 /\ UNCHANGED <<callLog, storeVars>>
              [] h = "handleTransfer" ->
                 /\ \/ /\ callLog' = markTransferred(callLog, "reason")
                       /\ Returns(TRUE, {}, TRUE)
                    \/ /\ EndTurn("failed")       \* markTransferred threw
                       /\ UNCHANGED <<callLog, tResult>>
                 /\ UNCHANGED storeVars
              [] OTHER ->
                 /\ Return(FALSE, {})              \* 'Unknown function'
                 /\ UNCHANGED <<callLog, storeVars>>
    /\ UNCHANGED <<session, streamStarted, initVars, greetVars,
                   endVars, otherVars, redirected, countVars>>

\* redis.updateSession: its getSession
ProcNameGet ==
    /\ tPc = "nameGet"
    /\ tResult' = (IF session.present THEN tResult ELSE "success")
    /\ IF session.present
       THEN tLocal' = getSession(session) /\ Continue("nameSet")
       ELSE tLocal' = NoSession /\ Continue("cont")
    /\ UNCHANGED <<session, callLog, streamStarted, initVars, greetVars,
                   endVars, otherVars, storeVars, redirected,
                   countVars, tId, tAction,
                   tText, tAudio, tShouldEnd, tOutcome>>

\* redis.updateSession: spread and setSession
ProcNameSet ==
    /\ tPc = "nameSet"
    /\ tResult' = "success"
    /\ session' = updateSession(tLocal, "new")
    /\ tLocal' = NoSession
    /\ Continue("cont")
    /\ UNCHANGED <<callLog, streamStarted, initVars, greetVars,
                   endVars, otherVars, storeVars, redirected,
                   countVars, tId, tAction,
                   tText, tAudio, tShouldEnd, tOutcome>>

\* handleEndCall (496-530): const refreshedSession = await getSession
ProcEndGet ==
    /\ tPc = "endGet"
    /\ tLocal' = getSession(session)
    /\ Continue("endComplete")
    /\ UNCHANGED <<session, callLog, streamStarted, initVars, greetVars,
                   endVars, auxVars, countVars, tId, tAction, tText, tAudio,
                   tShouldEnd, tOutcome>>

\* generateCallSummary, detectIntent, analyzeSentiment (openai.ts 143-238)
AnalysisCalls == {"summary", "intent", "sentiment"}

\* what the catch block of an analysis call returns
Fallback(call) ==
    CASE call = "summary" -> "Unable to generate summary "
      [] call = "intent" -> "unknown"
      [] call = "sentiment" -> "neutral"

\* (variant: the catch block logs the error and returns nothing)
AnalysisNoFallback(call, failed) ==
    IF call \in failed THEN NoText ELSE call

\* the value an analysis call resolves to; none of them rejects
Analysis(call, failed) ==
    IF call \in failed THEN Fallback(call) ELSE call

\* the data handleEndCall passes to completeCall
EndCallData(s, failed) ==
    [status |-> "completed", durationSeconds |-> NoDuration,
     transcript |-> Flatten(s.messageHistory),
     summary |-> Analysis("summary", failed),
     intent |-> Analysis("intent", failed),
     sentiment |-> Analysis("sentiment", failed),
     reservationId |-> NoId]

\* await Promise.all([summary, intent, sentiment]), of which those of one
\* of the sets in `outages` fail inside; then
\* await callLogModel.completeCall(callSid, {...})
ProcEndComplete(outages) ==
    /\ tPc = "endComplete"
    /\ \/ /\ \E failed \in outages :
                /\ tFailed' = failed
                /\ callLog' = completeCall(callLog, EndCallData(tLocal, failed))
          /\ tPc' = "endDelete"
          /\ UNCHANGED <<isProcessing, histVars, tHanded, tShouldTransfer>>
          /\ UNCHANGED <<tLocal, tId, tAction, tText, tAudio, tShouldEnd,
                         tOutcome>>
       \/ /\ EndTurn("failed")
          /\ UNCHANGED callLog
    /\ UNCHANGED <<session, streamStarted, initVars, greetVars,
                   endVars, auxVars, countVars>>

\* await redis.deleteSession(callSid); return { ..., shouldEnd: true }
ProcEndDelete ==
    /\ tPc = "endDelete"
    /\ tResult' = "success"
    /\ session' = deleteSession(session)
    /\ tLocal' = NoSession
    /\ tShouldEnd' = TRUE
    /\ endCallDone' = TRUE
    /\ tPc' = "cont"
    /\ UNCHANGED <<isProcessing, plainCall, tFailed, tHanded,
                   tShouldTransfer>>
    /\ UNCHANGED <<callLog, streamStarted, initVars, greetVars,
                   endVars, otherVars, storeVars, redirected,
                   countVars, tId, tAction,
                   tText, tAudio, tOutcome>>

\* textToSpeech(responseText) inside its try/catch, then addMessage
\* (assistant): its getSession
Speak ==
    /\ \E ok \in BOOLEAN : tAudio' = ok
    /\ IF session.present
       THEN tLocal' = getSession(session) /\ Continue("addASet")
       ELSE tLocal' = NoSession /\ Continue("appendU")

\* responseText = await openaiService.continueAfterFunctionCall(...);
\* if (responseText) { tts; addMessage ... }
ProcContinue ==
    /\ tPc = "cont"
    /\ tResult' = "none"                       \* the result is passed on
    /\ \/ EndTurn("failed")
       \/ /\ tText' = FALSE
          /\ ContinueOff("respond")
          /\ UNCHANGED <<tLocal, tId, tAction, tAudio, tShouldEnd, tOutcome>>
       \/ /\ tText' = TRUE
          /\ Speak
          /\ UNCHANGED <<tId, tAction, tShouldEnd, tOutcome>>
    /\ UNCHANGED <<session, callLog, streamStarted, initVars, greetVars,
                   endVars, otherVars, storeVars, redirected,
                   countVars>>

\* if (responseText) { tts; addMessage ... } after a free-text reply
ProcSpeak ==
    /\ tPc = "speak"
    /\ Speak
    /\ UNCHANGED <<session, callLog, streamStarted, initVars, greetVars,
                   endVars, auxVars, countVars, tId, tAction, tText, tShouldEnd,
                   tOutcome>>

\* addMessage(assistant): push and setSession
ProcAddAsstSet ==
    /\ tPc = "addASet"
    /\ session' = addMessage(tLocal, Message("assistant", tId))
    /\ tLocal' = NoSession
    /\ Continue("appendU")
    /\ UNCHANGED <<callLog, streamStarted, initVars, greetVars,
                   endVars, auxVars, countVars, tId, tAction, tText, tAudio,
                   tShouldEnd, tOutcome>>

\* await callLogModel.appendToTranscript(callSid, 'user', userInput)
ProcAppendUser ==
    /\ tPc = "appendU"
    /\ \/ /\ callLog' = appendToTranscript(callLog, "USER", tId)
          /\ Continue("appendA")
          /\ UNCHANGED <<tLocal, tId, tAction, tText, tAudio, tShouldEnd,
                         tOutcome>>
       \/ /\ EndTurn("failed")
          /\ UNCHANGED callLog
    /\ UNCHANGED <<session, streamStarted, initVars, greetVars,
                   endVars, auxVars, countVars>>

\* await callLogModel.appendToTranscript(callSid, 'assistant', responseText)
ProcAppendAsst ==
    /\ tPc = "appendA"
    /\ \/ /\ callLog' = appendToTranscript(callLog, "ASSISTANT", tId)
          /\ Continue("respond")
          /\ UNCHANGED <<tLocal, tId, tAction, tText, tAudio, tShouldEnd,
                         tOutcome>>
       \/ /\ EndTurn("failed")
          /\ UNCHANGED callLog
    /\ UNCHANGED <<session, streamStarted, initVars, greetVars,
                   endVars, auxVars, countVars>>

\* processInput has returned (twilio.ts 224-240): if (response.audio &&
\* streamSid) sendAudioResponse, hang up or transfer (their errors are caught
\* inside), then finally
\* (variant: the call is transferred whenever it is not hung up)
TransferAlways(shouldEnd, shouldTransfer) == ~shouldEnd

\* if (response.shouldEnd ...) hangupCall else if (response.shouldTransfer
\* ...) transferCall: whether transferCall is called
TransferDue(shouldEnd, shouldTransfer) == ~shouldEnd /\ shouldTransfer

\* transferCall (twilio.ts 327-348) when TRANSFER_NUMBER is set or not:
\* whether it sends the update with <Dial>; its failure is caught
transferCall(configured) == configured

\* processInput has returned: the audio is sent, then the call control
OnTranscriptRespond ==
    /\ tPc = "respond"
    /\ \/ /\ EndTurn("ok")
          /\ \E configured \in BOOLEAN :
                redirected' =
                  IF TransferDue(tShouldEnd, tShouldTransfer)
                  THEN redirected \/ transferCall(configured)
                  ELSE redirected
       \/ /\ tAudio /\ EndTurn("failed")          \* ws.send threw
          /\ UNCHANGED redirected
    /\ UNCHANGED <<session, callLog, streamStarted, initVars, greetVars,
                   endVars, otherVars, storeVars, tResult, countVars>>

TurnStepWith(outages, names) ==
    \/ ProcGet1 \/ ProcAddUserGet \/ ProcAddUserSet \/ ProcChat(names)
    \/ ProcExec \/ ProcNameGet \/ ProcNameSet
    \/ ProcEndGet \/ ProcEndComplete(outages) \/ ProcEndDelete
    \/ ProcContinue \/ ProcSpeak \/ ProcAddAsstSet
    \/ ProcAppendUser \/ ProcAppendAsst \/ OnTranscriptRespond

\* a step of a turn; any of the analysis calls may fail
TurnStep == TurnStepWith(SUBSET AnalysisCalls, Actions)

\* a step of a turn while the analysis calls are answered
TurnStepAnalysed == TurnStepWith({{}}, Actions)

\* ------------------------------------------------------------------------
\* POST /twilio/voice-simple with a SpeechResult (twilio.ts 100-126): the
\* route awaits processInput and answers with <Gather><Say>; it holds no
\* flag.  The reasoning engine answers this turn with text; an action goes
\* the way it goes in the turn above.
\* ------------------------------------------------------------------------
SimpleOthers ==
    UNCHANGED <<isProcessing, streamStarted, initVars, greetVars, turnVars,
                endVars, interimVars, storeVars, tResult, redirected,
                availVars, pairVars, dropped, endCallDone>>

\* the route has answered: TwiML of the reply, or of the catch block
SimpleEnd ==
    sPc' = "idle" /\ sLocal' = NoSession /\ sText' = FALSE /\ UNCHANGED sId

SimpleGo(pc) == sPc' = pc /\ UNCHANGED <<sLocal, sId, sText>>

SimpleSpeech ==
    /\ sPc = "idle" /\ speeches < MaxSpeechResults /\ initOutcome # "none"
    /\ speeches' = speeches + 1
    /\ turns' = turns + 1
    /\ sId' = turns + 1
    /\ sPc' = "get1"
    /\ plainCall' = FALSE
    /\ UNCHANGED <<session, callLog, rounds, sLocal, sText>>
    /\ SimpleOthers

\* const session = await redis.getSession(callSid); if (!session) throw
SimpleGet1 ==
    /\ sPc = "get1"
    /\ IF session.present THEN SimpleGo("addUGet") ELSE SimpleEnd
    /\ UNCHANGED <<session, callLog, countVars, speeches, plainCall>>
    /\ SimpleOthers

\* addMessage(user): its getSession
SimpleAddUserGet ==
    /\ sPc = "addUGet"
    /\ sLocal' = getSession(session)
    /\ sPc' = IF session.present THEN "addUSet" ELSE "get2"
    /\ UNCHANGED <<session, callLog, countVars, speeches, plainCall, sId,
                   sText>>
    /\ SimpleOthers

\* addMessage(user): push and setSession
SimpleAddUserSet ==
    /\ sPc = "addUSet"
    /\ session' = addMessage(sLocal, Message("user", sId))
    /\ sLocal' = NoSession
    /\ sPc' = "get2"
    /\ UNCHANGED <<callLog, countVars, speeches, plainCall, sId, sText>>
    /\ SimpleOthers

\* the second getSession and openaiService.chat: one reasoning round
SimpleChat ==
    /\ sPc = "get2"
    /\ IF ~session.present
       THEN SimpleEnd /\ UNCHANGED rounds
       ELSE /\ rounds' = rounds + 1
            /\ \/ SimpleEnd                       \* chat rethrows its error
               \/ \E text \in BOOLEAN :
                    /\ sText' = text
                    /\ sPc' = IF text THEN "speak" ELSE "respond"
                    /\ UNCHANGED <<sLocal, sId>>
    /\ UNCHANGED <<session, callLog, turns, speeches, plainCall>>
    /\ SimpleOthers

\* textToSpeech inside its try/catch, then addMessage(assistant): getSession
SimpleSpeak ==
    /\ sPc = "speak"
    /\ sLocal' = getSession(session)
    /\ sPc' = IF session.present THEN "addASet" ELSE "appendU"
    /\ UNCHANGED <<session, callLog, countVars, speeches, plainCall, sId,
                   sText>>
    /\ SimpleOthers

\* addMessage(assistant): push and setSession
SimpleAddAsstSet ==
    /\ sPc = "addASet"
    /\ session' = addMessage(sLocal, Message("assistant", sId))
    /\ sLocal' = NoSession
    /\ sPc' = "appendU"
    /\ UNCHANGED <<callLog, countVars, speeches, plainCall, sId, sText>>
    /\ SimpleOthers

\* the two appendToTranscript of the turn, one await each
SimpleAppend ==
    /\ sPc \in {"appendU", "appendA"}
    /\ \/ /\ callLog' = appendToTranscript(callLog,
                   IF sPc = "appendU" THEN "USER" ELSE "ASSISTANT", sId)
          /\ SimpleGo(IF sPc = "appendU" THEN "appendA" ELSE "respond")
       \/ SimpleEnd /\ UNCHANGED callLog
    /\ UNCHANGED <<session, countVars, speeches, plainCall>>
    /\ SimpleOthers

\* processInput has returned: gather.say(response.text), res.send
SimpleRespond ==
    /\ sPc = "respond"
    /\ SimpleEnd
    /\ UNCHANGED <<session, callLog, countVars, speeches, plainCall>>
    /\ SimpleOthers

SimpleStep ==
    \/ SimpleGet1 \/ SimpleAddUserGet \/ SimpleAddUserSet \/ SimpleChat
    \/ SimpleSpeak \/ SimpleAddAsstSet \/ SimpleAppend \/ SimpleRespond

\* ------------------------------------------------------------------------
\* POST /twilio/status -> handleCallEnded (twilio.ts 146-164,
\* conversation.ts 536-559)
\* ------------------------------------------------------------------------
\* a terminal status arrives; const session = await redis.getSession(callSid)
StatusCallback ==
    /\ ePc = "idle" /\ stops < MaxStops /\ initOutcome # "none"
    /\ stops' = stops + 1
    /\ \E ev \in StopEvents : eStatus' = ev.status /\ eDuration' = ev.duration
    /\ eLocal' = getSession(session)
    /\ ePc' = IF session.present THEN "complete" ELSE "delete"
    /\ eAfterEndCall' = endCallDone
    /\ plainCall' = FALSE
    /\ UNCHANGED <<session, callLog, isProcessing, streamStarted, initVars,
                   greetVars, turnVars, countVars, endCallDone, auxVars>>

\* the data handleCallEnded passes to completeCall
CallEndedData(s, st, d) ==
    [status |-> st, durationSeconds |-> d,
     transcript |-> Flatten(s.messageHistory),
     summary |-> NoText, intent |-> NoText, sentiment |-> NoText,
     reservationId |-> NoId]

\* if (session) await callLogModel.completeCall(callSid, {...}); when the
\* update throws, handleCallEnded throws and the route answers 500
EndedComplete ==
    /\ ePc = "complete"
    /\ \/ /\ callLog' = completeCall(callLog,
                               CallEndedData(eLocal, eStatus, eDuration))
          /\ ePc' = "delete"
          /\ UNCHANGED <<eStatus, eDuration, eAfterEndCall>>
       \/ /\ ePc' = "idle"
          /\ eStatus' = "none" /\ eDuration' = NoDuration
          /\ eAfterEndCall' = FALSE
          /\ UNCHANGED callLog
    /\ eLocal' = NoSession
    /\ UNCHANGED <<session, isProcessing, streamStarted, initVars,
                   greetVars, turnVars, countVars, stops, histVars, auxVars>>

\* await redis.deleteSession(callSid)
EndedDelete ==
    /\ ePc = "delete"
    /\ session' = deleteSession(session)
    /\ ePc' = "idle"
    /\ eLocal' = NoSession
    /\ eStatus' = "none" /\ eDuration' = NoDuration
    /\ eAfterEndCall' = FALSE
    /\ UNCHANGED <<callLog, isProcessing, streamStarted, initVars,
                   greetVars, turnVars, countVars, stops, histVars, auxVars>>

EndedStep == EndedComplete \/ EndedDelete

\* a call with its call-ended notification
OnCallTranscript == OnTranscript(MaxCallTranscripts)

Next ==
    \/ VoiceWebhook \/ InitSetSession \/ StreamStart \/ GreetStep
    \/ OnCallTranscript \/ TurnStep
    \/ StatusCallback \/ EndedStep

Spec == Init /\ [][Next]_vars

\* a call that lasts: more transcripts, the transport does not end it
OnLiveTranscript == OnTranscript(MaxTranscripts)

TurnNext ==
    \/ VoiceWebhookOnce \/ InitSetSession \/ StreamStart \/ GreetStep
    \/ OnLiveTranscript \/ TurnStep

TurnSpec == Init /\ [][TurnNext]_vars

\* the same call while the analysis calls are answered
AnalysedNext ==
    \/ VoiceWebhookOnce \/ InitSetSession \/ StreamStart \/ GreetStep
    \/ OnLiveTranscript \/ TurnStepAnalysed

\* every await of a turn settles: the awaited call returns or throws
FairTurnSpec == Init /\ [][AnalysedNext]_vars /\ WF_vars(TurnStepAnalysed)

\* the start of a call: the webhook and its redelivery, the stream, the
\* greeting and the first transcripts
StartNext ==
    \/ VoiceWebhook \/ InitSetSession \/ StreamStart \/ GreetStep
    \/ OnCallTranscript \/ TurnStep

StartSpec == Init /\ [][StartNext]_vars

\* a call whose transcription delivers interim results too
InterimNext ==
    \/ VoiceWebhookOnce \/ InitSetSession \/ StreamStart \/ GreetStep
    \/ OnCallTranscript \/ OnInterim \/ TurnStepAnalysed

InterimSpec == Init /\ [][InterimNext]_vars

\* a call that is driven through both entry points of a turn
SimpleNext ==
    \/ VoiceWebhookOnce \/ InitSetSession \/ StreamStart \/ GreetStep
    \/ OnCallTranscript \/ TurnStepAnalysed
    \/ SimpleSpeech \/ SimpleStep

SimpleSpec == Init /\ [][SimpleNext]_vars

\* a step of a turn whose reasoning round may answer with any function name
TurnStepNamed == TurnStepWith({{}}, Names)

\* a call whose turn may call any function
ActionNext ==
    \/ VoiceWebhookOnce \/ InitSetSession \/ StreamStart \/ GreetStep
    \/ OnCallTranscript \/ TurnStepNamed

ActionSpec == Init /\ [][ActionNext]_vars

\* the call of any caller up to the end of its greeting, with one transcript
GreetingNext ==
    \/ VoiceWebhookOnce \/ InitSetSessionAny \/ StreamStart \/ GreetStep
    \/ OnCallTranscript \/ TurnStep

GreetingSpec == Init /\ [][GreetingNext]_vars

\* ------------------------------------------------------------------------
\* Two calls at once.  Every handler is entered with the CallSid of its
\* request or of its connection, and the store is reached only by the key
\* `session:${callSid}` (redis.ts 44-66); callSid and isProcessing are
\* variables of the connection's closure (twilio.ts 187-192).
\* ------------------------------------------------------------------------
\* setSession(callSid, session): SETEX of the key of callSid
setSessionOf(st, callSid, s) == [st EXCEPT ![callSid] = s]

\* POST /voice with CallSid k: initializeConversation stores its session
VoiceOf(k) ==
    /\ k \notin answered
    /\ pair' = [pair EXCEPT
                  !.answered = @ \cup {k},
                  !.sessions = setSessionOf(@, k,
                      setSession([NoSession EXCEPT
                                    !.currentStep = "greeting",
                                    !.full_name = "old"]))]

\* generateGreeting(callSid) as one step (its interleaving with the turns
\* of its own call is the subject of the specifications above): the
\* greeting is appended and currentStep set, if the session is there
generateGreeting(s) ==
    IF s.present
    THEN updateSessionState(addMessage(s, Message("assistant", 0)),
                            "listening")
    ELSE s

\* 'start' on the connection opened for call c: callSid is bound, the
\* transcription is created and generateGreeting(callSid) is awaited
StreamStartOf(c) ==
    /\ c \in answered /\ conns[c].callSid = NoCall
    /\ pair' = [pair EXCEPT
                  !.conns[c].callSid = c,
                  !.sessions = setSessionOf(@, c,
                                   generateGreeting(sessions[c]))]

\* (variant: one isProcessing for the whole server)
TranscriptAcceptedAlone(c) == \A d \in CallSids : ~conns[d].isProcessing

\* if (!callSid || isProcessing) return;
TranscriptAcceptedOf(c) ==
    conns[c].callSid # NoCall /\ ~conns[c].isProcessing

\* a final transcript on the connection c
OnTranscriptOf(c) ==
    /\ conns[c].callSid # NoCall
    /\ conns[c].turns + conns[c].dropped < MaxCallTranscripts
    /\ pair' = IF TranscriptAcceptedOf(c)
               THEN [pair EXCEPT !.conns[c].isProcessing = TRUE,
                                 !.conns[c].turns = @ + 1,
                                 !.conns[c].tPc = "get1"]
               ELSE [pair EXCEPT !.conns[c].dropped = @ + 1]

\* a step of processInput(callSid, text) of connection c, the reasoning
\* engine answering with text, up to the finally of onTranscript
TurnStepOf(c) ==
    LET k == conns[c].callSid
        at == conns[c].tPc
        there == sessions[k].present
        to(pc) == [pair EXCEPT !.conns[c].tPc = pc,
                               !.conns[c].tLocal = NoSession]
        read(pc) == [pair EXCEPT !.conns[c].tPc = pc,
                                 !.conns[c].tLocal = getSession(sessions[k])]
        push(role, pc) ==
            [to(pc) EXCEPT !.sessions = setSessionOf(@, k,
                 addMessage(conns[c].tLocal, Message(role, conns[c].turns)))]
    IN  /\ at # "idle"
        /\ CASE at = "get1" ->
                  pair' = to(IF there THEN "addUGet" ELSE "respond")
             [] at = "addUGet" ->
                  pair' = read(IF there THEN "addUSet" ELSE "get2")
             [] at = "addUSet" -> pair' = push("user", "get2")
             [] at = "get2" ->
                  \/ pair' = to("respond")        \* session lost, chat failed
                  \/ there /\ pair' = to("speak")
             [] at = "speak" ->
                  pair' = read(IF there THEN "addASet" ELSE "respond")
             [] at = "addASet" -> pair' = push("assistant", "respond")
             [] at = "respond" ->
                  pair' = [pair EXCEPT !.conns[c].tPc = "idle",
                                       !.conns[c].isProcessing = FALSE]

\* POST /status with CallSid k and a terminal status: handleCallEnded ends
\* with deleteSession(callSid)
StatusCallbackOf(k) ==
    /\ k \in answered /\ k \notin ended
    /\ pair' = [pair EXCEPT
                  !.ended = @ \cup {k},
                  !.sessions = setSessionOf(@, k, deleteSession(@[k]))]

\* an event of call k is handled
EventOf(k) ==
    \/ VoiceOf(k) \/ StreamStartOf(k)
    \/ OnTranscriptOf(k) \/ TurnStepOf(k) \/ StatusCallbackOf(k)

PairNext ==
    \E k \in CallSids : EventOf(k) /\ UNCHANGED <<lineVars, availVars>>

PairInit == CallInit /\ AvailOff /\ TwoCalls

PairSpec == PairInit /\ [][PairNext]_vars

\* time passes in the session store
Tick ==
    /\ session.present
    /\ session' = elapse(session, ClockStep)
    /\ UNCHANGED <<callLog, isProcessing, streamStarted, initVars, greetVars,
                   turnVars, endVars, auxVars, countVars, histVars>>

\* a step of a turn whose action, if any, writes or deletes the session
TurnStepStored == TurnStepWith({{}}, {"update_customer_name", "end_call"})

\* a call in real time: its session expires unless it is written
TimedNext ==
    \/ VoiceWebhookOnce \/ InitSetSession \/ StreamStart \/ GreetStep
    \/ OnCallTranscript \/ TurnStepStored
    \/ Tick

TimedSpec == Init /\ [][TimedNext]_vars

\* a call in real time up to its call-ended notification, the caller silent
EndedNext ==
    \/ VoiceWebhookOnce \/ InitSetSession \/ StreamStart \/ GreetStep
    \/ StatusCallback \/ EndedStep
    \/ Tick

\* the clock of the store does not stop; the handlers of the call may
FairTimedSpec == Init /\ [][EndedNext]_vars /\ WF_vars(Tick)

\* ------------------------------------------------------------------------
\* handleCheckAvailability (conversation.ts 275-300) and the slot search
\* ------------------------------------------------------------------------
callVars == <<lineVars, pairVars>>

\* a check_availability with any arguments, environment and store
AvailInit ==
    /\ CallInit /\ PairOff
    /\ avail \in [aPc : {"idle"},
                  aArgs : [date : Dates, time : Times, party : PartySizes],
                  aEnv : Envs,
                  slots : Stores,
                  aStack : {<<>>}, probes : {0}, aResult : {NoResult}]

\* { success: false, error }
Invalid(error) == [NoResult EXCEPT !.kind = "failure", !.error = error]

\* handleCheckAvailability has returned result
Returned(result) ==
    [avail EXCEPT !.aResult = result, !.aStack = <<>>, !.aPc = "done"]

\* validateReservation, validatePartySize, then checkAvailability is called
HandleCheckAvailability ==
    /\ aPc = "idle"
    /\ LET validation == validateReservation(aArgs.date, aArgs.time, aEnv)
           sizeValidation == validatePartySize(aArgs.party)
       IN  IF validation # "valid"
           THEN avail' = Returned(Invalid(validation))
           ELSE IF sizeValidation # "valid"
           THEN avail' = Returned(Invalid(sizeValidation))
           ELSE avail' = [avail EXCEPT !.aPc = "check"]
    /\ UNCHANGED callVars

\* the store can answer for the date and time (its casts succeed)
Answerable == aArgs.date.real /\ RealTime(aArgs.time)

\* checkAvailability of the requested slot (reservation.ts 15-69): the
\* blocked_times query, the count query, and for a full slot the call of
\* findAlternativeSlots(date, time, 3, partySize)
CheckAvailability ==
    /\ aPc = "check" /\ Answerable
    /\ LET hour == HoursOf(aArgs.time)
           state == slotState(slots, hour)
       IN  IF state = "full"
           THEN avail' = [avail EXCEPT !.aStack = <<Frame(hour)>>,
                                       !.aPc = "search"]
           ELSE avail' = Returned([NoResult EXCEPT !.kind = state])
    /\ UNCHANGED callVars

\* the innermost findAlternativeSlots call and the hour its loop is at
Top == aStack[Len(aStack)]
NewHour == Top.hour + offsets[Top.i]

\* if (alternatives.length >= count) break, or the offsets are exhausted
LoopOver(f) == Len(f.alternatives) >= 3 \/ f.i > Len(offsets)

\* if (newHour >= openingHour && newHour <= closingHour)
InHours(hour, env) == hour >= openingHour(env) /\ hour <= closingHour(env)

\* the innermost loop goes on to its next offset
Advance(alternatives) ==
    [aStack EXCEPT ![Len(aStack)] =
       [@ EXCEPT !.i = @ + 1, !.alternatives = alternatives]]

\* an offset whose hour is outside the hour range is passed over
AltSkip ==
    /\ aPc = "search" /\ ~LoopOver(Top) /\ ~InHours(NewHour, aEnv)
    /\ avail' = [avail EXCEPT !.aStack = Advance(Top.alternatives)]
    /\ UNCHANGED callVars

\* const availability = await checkAvailability(date, newTime, partySize):
\* a free slot is pushed, a blocked one is not, and for a full one
\* checkAvailability calls findAlternativeSlots for that slot
AltProbe ==
    /\ aPc = "search" /\ ~LoopOver(Top) /\ InHours(NewHour, aEnv)
    /\ probes < MaxProbes
    /\ LET state == slotState(slots, NewHour)
           stack ==
             CASE state = "free" ->
                    Advance(Append(Top.alternatives, NewHour))
               [] state = "blocked" -> Advance(Top.alternatives)
               [] state = "full" -> Append(aStack, Frame(NewHour))
       IN  avail' = [avail EXCEPT !.probes = @ + 1, !.aStack = stack]
    /\ UNCHANGED callVars

\* return alternatives: to the checkAvailability that called, which returns
\* available: false with them, to the loop that probed or to the handler
AltReturn ==
    /\ aPc = "search" /\ LoopOver(Top)
    /\ IF Len(aStack) = 1
       THEN avail' = Returned([NoResult EXCEPT
                                 !.kind = "full",
                                 !.alternativeSlots = Top.alternatives])
       ELSE avail' = [avail EXCEPT !.aStack =
                        [SubSeq(aStack, 1, Len(aStack) - 1) EXCEPT
                           ![Len(aStack) - 1] = [@ EXCEPT !.i = @ + 1]]]
    /\ UNCHANGED callVars

\* a query of the store rejects (a cast fails, the database is down): the
\* error leaves checkAvailability and the handler, which catches nothing
StoreThrows ==
    /\ \/ aPc = "check"
       \/ aPc = "search" /\ ~LoopOver(Top) /\ InHours(NewHour, aEnv)
    /\ avail' = Returned([NoResult EXCEPT !.kind = "thrown"])
    /\ UNCHANGED callVars

AvailNext ==
    \/ HandleCheckAvailability \/ CheckAvailability
    \/ AltSkip \/ AltProbe \/ AltReturn \/ StoreThrows

AvailabilitySpec == AvailInit /\ [][AvailNext]_vars

\* ------------------------------------------------------------------------
\* Properties
\* ------------------------------------------------------------------------
IsPrefix(a, b) == Len(a) <= Len(b) /\ SubSeq(b, 1, Len(a)) = a

Count(h, role) == Cardinality({i \in 1..Len(h) : h[i].role = role})

Alternates(h) == \A i \in 1..(Len(h) - 1) : h[i].role # h[i + 1].role

\* a final transcript is delivered to onTranscript
TranscriptArrives == turns' + dropped' = turns + dropped + 1

\* C1: a final transcript that arrives while processInput of an earlier one
\* has not completed is dropped: it opens no turn, it changes nothing of the
\* turn in flight, of the session or of the call record, and no reasoning
\* round is ever run for it (there are never more rounds than opened turns).
C1_SecondTranscriptDropped ==
    /\ [](rounds <= turns)
    /\ [][(isProcessing /\ TranscriptArrives) =>
            /\ turns' = turns /\ rounds' = rounds
            /\ UNCHANGED <<session, callLog, isProcessing, turnVars>>]_vars

\* two transcripts, one turn, one reasoning round, and the turn is over
C1_Witness == dropped = 1 /\ turns = 1 /\ rounds = 1 /\ tPc = "idle"

VoiceDelivered ==
    initPc = "idle" /\ (initPc' # "idle" \/ initOutcome' # initOutcome)

C4_StartNeverOverwrites ==
    /\ [][(VoiceDelivered /\ session.present) =>
            /\ initOutcome' = "error" /\ initPc' = "idle"
            /\ session' = session]_vars
    /\ [][(initPc = "set" /\ initPc' = "idle") => ~session.present]_vars

\* a redelivered webhook has failed and the session with its history is there
C4_Witness ==
    /\ initOutcome = "error" /\ session.present
    /\ Len(session.messageHistory) > 0

\* C6: when processInput finds no session it throws at once: the turn is
\* over, no reasoning round was run, nothing was written to the session
\* store (which still has no session) or to the call record.
C6_NoSessionNoTurn ==
    [][(tPc = "get1" /\ tPc' # "get1" /\ ~session.present) =>
         /\ tPc' = "idle" /\ tOutcome' \in {"sessionMissing", "failed"}
         /\ rounds' = rounds
         /\ session' = session /\ callLog' = callLog]_vars

\* a turn has ended on the missing session
C6_Witness ==
    /\ tOutcome = "sessionMissing" /\ tPc = "idle" /\ ~session.present
    /\ turns >= 1

\* C3: while the session of a call exists its messageHistory only grows by
\* appending: the history before any step is a prefix of the history after.
C3_HistoryAppendOnly ==
    [][(session.present /\ session'.present) =>
         IsPrefix(session.messageHistory, session'.messageHistory)]_vars

\* C5: a handleCallEnded that begins after handleEndCall has finalized the
\* call leaves the call record exactly as it is.
C5_SecondFinalizationNoOp ==
    [][(eAfterEndCall /\ ePc' # ePc) => callLog' = callLog]_vars

\* C7: user and assistant entries of messageHistory strictly alternate.
C7_HistoryAlternates == session.present => Alternates(session.messageHistory)

\* C8 as stated: after N completed turns the history has N user entries and
\* N assistant entries, 2 entries after the first turn.
C8_Original ==
    (plainCall /\ session.present /\ tPc = "idle" /\ turns >= 1) =>
        /\ Count(session.messageHistory, "user") = turns
        /\ Count(session.messageHistory, "assistant") = turns

\* C8, amended: the greeting is an assistant entry of its own.  The history
\* of a call never has more user entries than turns were opened, nor more
\* assistant entries than that plus one; when the greeting was over before
\* the first turn and each of the N turns has completed with a reply and
\* without ending the call, it has exactly N user and N + 1 assistant
\* entries, which alternate (3 entries after the first turn).
C8_HistoryCounts ==
    session.present =>
        /\ Count(session.messageHistory, "user") <= turns
        /\ Count(session.messageHistory, "assistant") <= turns + 1
        /\ (plainCall /\ streamStarted /\ gPc = "idle" /\ tPc = "idle") =>
              /\ Count(session.messageHistory, "user") = turns
              /\ Count(session.messageHistory, "assistant") = turns + 1
              /\ Alternates(session.messageHistory)

\* the first turn of a plain call is over and the history has 3 entries
C8_Witness ==
    /\ plainCall /\ session.present /\ tPc = "idle" /\ turns = 1
    /\ Len(session.messageHistory) = 3

\* a step of handleCallEnded that has run completeCall, and its last step
CallEndedCompletes == ePc = "complete" /\ ePc' = "delete"
CallEndedReturns == ePc = "delete" /\ ePc' = "idle"

\* C9: a call-ended notification that finds the session goes on to
\* completeCall, which leaves the status and the duration of the
\* notification on the call record, and then deletes the session, whatever
\* currentStep is and whether or not a turn is in flight.
C9_CallEndedPersists ==
    /\ [][(ePc = "idle" /\ ePc' # "idle" /\ session.present) =>
            ePc' = "complete"]_vars
    /\ [][CallEndedCompletes =>
            (callLog'.status = eStatus /\ callLog'.duration = eDuration)]_vars
    /\ [][CallEndedReturns => ~session'.present]_vars

\* the record of a finalized call has every field of the completed record
RecordComplete(r) ==
    /\ r.status # NoText /\ r.duration # NoDuration
    /\ r.summary # NoText /\ r.intent # NoText /\ r.sentiment # NoText

\* C10: whichever trigger finalizes a call whose session is present, the
\* record it writes carries status, duration, transcript, summary, intent
\* and sentiment, and the session is deleted afterwards.
C10_FinalRecordComplete ==
    /\ [][(tPc = "endComplete" /\ tPc' = "endDelete" /\ tLocal.present) =>
            (RecordComplete(callLog')
             /\ callLog'.transcript = Flatten(tLocal.messageHistory))]_vars
    /\ [][CallEndedCompletes =>
            (RecordComplete(callLog')
             /\ callLog'.transcript = Flatten(eLocal.messageHistory))]_vars
    /\ [][(tPc = "endDelete" /\ tPc' # "endDelete") => ~session'.present]_vars
    /\ [][CallEndedReturns => ~session'.present]_vars

\* C11: whichever of the three analysis calls fail in handleEndCall, the
\* record is completed all the same, each failed value replaced by its
\* fallback and the others kept, and the next step of the finalization
\* deletes the session.
C11_AnalysisFailureTolerated ==
    /\ [][(tPc = "endComplete" /\ tPc' = "endDelete") =>
            /\ callLog'.status = "completed"
            /\ \A c \in AnalysisCalls :
                 LET v == IF c = "summary" THEN callLog'.summary
                          ELSE IF c = "intent" THEN callLog'.intent
                          ELSE callLog'.sentiment
                 IN  /\ v # NoText
                     /\ c \in tFailed' <=> v = Fallback(c)]_vars
    /\ [][(tPc = "endDelete" /\ tPc' # "endDelete") =>
            (~session'.present /\ tShouldEnd')]_vars

\* summary and sentiment failed, intent did not; the record is completed
\* with the two fallbacks and the session is deleted
C11_Witness ==
    /\ tFailed = {"summary", "sentiment"} /\ tPc = "cont" /\ tShouldEnd
    /\ ~session.present
    /\ callLog.summary = "Unable to generate summary "
    /\ callLog.intent = "intent" /\ callLog.sentiment = "neutral"

\* an interim transcript is delivered to onInterim
InterimArrives == interims' = interims + 1

\* C12: an interim transcript, whenever it arrives, leaves the session
\* (currentStep, messageHistory), the call record, isProcessing and the turn
\* in flight as they are, opens no turn and starts no reasoning round.
C12_InterimChangesNothing ==
    [][InterimArrives =>
         UNCHANGED <<session, callLog, isProcessing, turnVars, greetVars,
                     turns, dropped, rounds>>]_vars

\* an interim transcript arrived while the turn awaited the reasoning round,
\* and the turn has gone on
C12_Witness ==
    /\ interims = 1 /\ interimAt = "get2" /\ rounds = 1 /\ turns = 1
    /\ tPc = "speak"

\* C13: no turn that produced a response text ends with nothing handed to
\* the transport, also when the speech synthesis of the turn failed.
C13_UtteranceAlwaysHanded ==
    [][(tPc = "respond" /\ tPc' = "idle" /\ tOutcome' = "ok" /\ tText) =>
         tHanded']_vars

\* processInput is in flight for the transcript callback / for /voice-simple
StreamInputInFlight == tPc \notin {"idle", "respond"}
SimpleInputInFlight == sPc \notin {"idle", "respond"}

\* C14: at no time are two executions of processInput of the call in flight
\* together, whichever entry points opened them.
C14_OneProcessInput == ~(StreamInputInFlight /\ SimpleInputInFlight)

\* the messages of a history
Entries(h) == {h[i] : i \in 1..Len(h)}

\* C15: no session write is lost: while the session exists, every message
\* that was appended, the currentStep 'listening' the greeting wrote and the
\* name update_customer_name wrote are still there after every step of any
\* handler of the call.
C15_NoWriteLost ==
    [][(session.present /\ session'.present) =>
         /\ Entries(session.messageHistory) \subseteq
                Entries(session'.messageHistory)
         /\ session.currentStep = "listening" =>
                session'.currentStep = "listening"
         /\ session.full_name = "new" => session'.full_name = "new"]_vars

\* a turn is opened by the transcript callback
TurnOpens == turns' = turns + 1

\* C16: the audio of a turn is handed to the transport before the reasoning
\* round of the next turn begins: a turn that returns with audio sends it in
\* the step that ends the turn, a turn is opened only when none is in flight
\* and no audio waits to be sent, and a reasoning round is only ever begun by
\* the turn opened last.
C16_AudioBeforeNextRound ==
    /\ [][(tPc = "respond" /\ tPc' = "idle" /\ tAudio) =>
            (tHanded' \/ tOutcome' = "failed")]_vars
    /\ [][TurnOpens => (tPc = "idle" /\ ~tAudio)]_vars
    /\ [][rounds' = rounds + 1 => (tPc = "get2" /\ tId = turns)]_vars

\* the audio of turn 1 was handed over and the round of turn 2 has begun
C16_Witness ==
    /\ tHanded /\ tOutcome = "ok" /\ turns = 2 /\ tId = 2 /\ rounds = 2
    /\ tPc = "speak"

\* the turn is inside executeFunctionCall: the dispatch or a handler
InAction == tPc \in {"exec", "nameGet", "nameSet", "endGet", "endComplete",
                     "endDelete"}

\* C17: a failure inside the handler of an action never aborts the turn: a
\* turn that is inside executeFunctionCall does not end there, it goes on to
\* the follow-up reasoning call with the result of the action.
C17_ActionFailureReturned ==
    [][(InAction /\ tPc' # tPc) => tPc' # "idle"]_vars

\* the handler that carries out a function of the vocabulary
OwnHandler(name) ==
    CASE name = "check_availability" -> "handleCheckAvailability"
      [] name = "create_reservation" -> "handleCreateReservation"
      [] name = "modify_reservation" -> "handleModifyReservation"
      [] name = "cancel_reservation" -> "handleCancleReservation"
      [] name = "get_customer_reservations" -> "handleGetReservations"
      [] name = "update_customer_name" -> "handleUpdateName"
      [] name = "answer_faq" -> "handleFaq"
      [] name = "transfer_to_human" -> "handleTransfer"
      [] name = "end_call" -> "handleEndCall"

\* C18: each of the nine names of the vocabulary is dispatched to its own
\* handler (so that cancel_reservation reaches the handler that cancels),
\* and a name outside the vocabulary is answered with success:false
\* without a side effect on the session, the call record or the stores.
C18_EachNameOwnHandler ==
    /\ [](tPc = "exec" /\ tAction \in Vocabulary =>
            Dispatch(tAction) = OwnHandler(tAction))
    /\ [][(tPc = "exec" /\ tAction \notin Vocabulary /\ tPc' # tPc) =>
            /\ tPc' = "cont" /\ tResult' = "failure"
            /\ UNCHANGED <<session, callLog, storeVars>>]_vars

\* handleCreateReservation returns to a turn that has a session
CreateReturns ==
    /\ tPc = "exec" /\ session.present /\ tPc' = "cont"
    /\ Dispatch(tAction) = "handleCreateReservation"

C20_FinalizedBeforeResult ==
    /\ [][(tShouldEnd' /\ ~tShouldEnd) =>
            /\ tResult' = "success" /\ tPc' = "cont"
            /\ ~session'.present
            /\ callLog'.status = "completed"
            /\ callLog'.summary # NoText]_vars
    /\ [][(tPc = "cont" /\ tPc' # "cont" /\ tShouldEnd) =>
            (endCallDone /\ callLog.status = "completed")]_vars

\* the follow-up reasoning call of a turn that ended the call has answered
C20_Witness ==
    /\ tShouldEnd /\ tPc = "respond" /\ endCallDone
    /\ callLog.status = "completed" /\ ~session.present

\* handleTransfer returns to a turn that has a session
TransferReturns ==
    /\ tPc = "exec" /\ session.present /\ tPc' = "cont"
    /\ Dispatch(tAction) = "handleTransfer"

\* C21: the transfer_to_human handler only records the reason on the call
\* record and returns shouldTransfer: it changes neither the session nor
\* the stores and redirects nothing.  The redirect is issued by the
\* transcript callback of the media stream when the turn has returned, and
\* only for a turn whose result has shouldTransfer.
C21_TransferByCoordinator ==
    /\ [][TransferReturns =>
            /\ callLog' = [callLog EXCEPT !.was_transferred = TRUE,
                                          !.transfer_reason = "reason"]
            /\ tShouldTransfer' /\ tResult' = "success"
            /\ UNCHANGED <<session, storeVars, redirected>>]_vars
    /\ [][redirected' # redirected =>
            /\ tPc = "respond" /\ tPc' = "idle" /\ tOutcome' = "ok"
            /\ tShouldTransfer /\ ~tShouldEnd]_vars

\* a turn that asked for a transfer has returned and the call is redirected
C21_Witness ==
    /\ redirected /\ callLog.was_transferred /\ tPc = "idle"
    /\ tOutcome = "ok"

\* minutes since midnight of "H:MM" or "HH:MM"
TimeOfDay(t) == 60 * HourPart(t) + 10 * t[Len(t) - 1] + t[Len(t)]

\* position of an hour among the offsets from the requested hour
OffsetIndex(hour) ==
    CHOOSE k \in 1..Len(offsets) : HoursOf(aArgs.time) + offsets[k] = hour

\* check_availability has returned for a slot that is fully booked
FullyBooked == aPc = "done" /\ aResult.kind = "full"

\* C22: for a fully booked slot check_availability returns at most 3
\* alternatives; each is a free slot at one of the offsets +1h, -1h, +2h,
\* -2h, +3h, -3h from the requested time, its time of day lies between
\* the opening and the closing time, and they are listed in offset order.
C22_AlternativesOffered ==
    FullyBooked =>
      LET alts == aResult.alternativeSlots
          minute == MinutesOf(aArgs.time)
      IN  /\ Len(alts) <= 3
          /\ \A j \in 1..Len(alts) :
               /\ \E k \in 1..Len(offsets) :
                     alts[j] = HoursOf(aArgs.time) + offsets[k]
               /\ slotState(slots, alts[j]) = "free"
               /\ 60 * alts[j] + minute >= TimeOfDay(OpeningTime(aEnv))
               /\ 60 * alts[j] + minute <= TimeOfDay(ClosingTime(aEnv))
          /\ \A j \in 1..Len(alts) : \A l \in 1..Len(alts) :
               j < l => OffsetIndex(alts[j]) < OffsetIndex(alts[l])

\* C23: the slot search of one check_availability probes each of the six
\* offsets at most once, so it makes at most six availability checks, and
\* no search is begun inside another.
C23_SearchBounded ==
    probes <= Len(offsets) /\ Len(aStack) <= 1

\* the arguments are of a kind that is to be refused: a date or time that
\* has not the format, a past date, a time of day outside the opening
\* hours, a party size that is no number, below 1 or above the maximum
Refusable ==
    \/ ~aArgs.date.shape
    \/ ~TimeFormat(aArgs.time)
    \/ aArgs.date.real /\ aArgs.date.day < 0
    \/ /\ RealTime(aArgs.time)
       /\ \/ TimeOfDay(aArgs.time) < TimeOfDay(OpeningTime(aEnv))
          \/ TimeOfDay(aArgs.time) > TimeOfDay(ClosingTime(aEnv))
    \/ aArgs.party = NaN \/ aArgs.party < 1 \/ aArgs.party > MaxPartySize

GreetingReturns == gPc = "updSet" /\ gPc' = "idle"

\* C25: when generateGreeting returns for a call that has a session,
\* whether or not the speech synthesis succeeded, the greeting is the last
\* entry of messageHistory, with role assistant, and currentStep is
\* 'listening'.
C25_GreetingLast ==
    [][(GreetingReturns /\ session'.present) =>
         /\ session'.messageHistory # <<>>
         /\ session'.messageHistory[Len(session'.messageHistory)] =
              Message("assistant", 0)
         /\ session'.currentStep = "listening"]_vars

\* ------------------------------------------------------------------------
\* C26: for a caller with a known name and at least one upcoming reservation
\* the greeting text references the caller's name and the date and time of
\* the next upcoming reservation
\* ------------------------------------------------------------------------
KnownWithReservation(s) ==
    s.present /\ s.full_name # "none" /\ s.upcomingReservations # <<>>

GreetingComposed == gPc = "get" /\ gPc' = "addGet"

C26_GreetingPersonal ==
    [][(GreetingComposed /\ KnownWithReservation(session)) =>
         /\ gText'.said
         /\ gText'.name = session.full_name
         /\ gText'.date = session.upcomingReservations[1].reservation_date
         /\ gText'.time = session.upcomingReservations[1].reservation_time
      ]_vars

\* ------------------------------------------------------------------------
\* C27: when update_customer_name(name) has succeeded the stored session's
\* caller name is name, and the action leaves the session's messageHistory
\* and currentStep as they were
\* ------------------------------------------------------------------------
NameUpdateStored == tPc = "nameSet" /\ tPc' = "cont"

C27_NameUpdateFrame ==
    [][NameUpdateStored =>
         /\ session'.full_name = "new"
         /\ session'.messageHistory = session.messageHistory
         /\ session'.currentStep = session.currentStep]_vars

\* ------------------------------------------------------------------------
\* C28: every write to the session (create, update, state update, message
\* append) leaves it with the full SESSION_TTL as its remaining lifetime,
\* and a step that does not write it, a read among them, leaves the
\* remaining lifetime as it was; only the clock lowers it
\* ------------------------------------------------------------------------
Content(s) == [s EXCEPT !.ttl = 0]

SessionWritten ==
    \/ initPc = "set" /\ initPc' = "idle"                   \* setSession
    \/ gPc = "addSet" /\ gPc' = "updGet"                   \* addMessage
    \/ gPc = "updSet" /\ gPc' = "idle"             \* updateSessionState
    \/ tPc = "addUSet" /\ tPc' # tPc                       \* addMessage
    \/ tPc = "addASet" /\ tPc' # tPc                       \* addMessage
    \/ tPc = "nameSet" /\ tPc' = "cont"                 \* updateSession

SessionRead ==
    \/ gPc \in {"get", "addGet", "updGet"} /\ gPc' # gPc
    \/ tPc \in {"get1", "addUGet", "get2", "nameGet", "endGet"} /\ tPc' # tPc
    \/ ePc = "idle" /\ ePc' # "idle"

C28_WriteRenewsLifetime ==
    [][/\ SessionWritten =>
            session'.present /\ session'.ttl = SESSION_TTL
       /\ SessionRead => session'.ttl = session.ttl
       /\ session'.ttl # session.ttl =>
            SessionWritten \/ Tick \/ ~session'.present]_vars

\* the session has been created and appended to, part of its lifetime has
\* passed, and update_customer_name has read it and is about to write it
C28_Witness ==
    /\ session.present /\ session.ttl < SESSION_TTL
    /\ session.messageHistory # <<>>
    /\ tPc = "nameSet" /\ tLocal.present

\* ------------------------------------------------------------------------
\* C29: every session that is created is eventually absent from the store:
\* finalization deletes it, or its lifetime runs out without any step of the
\* application
\* ------------------------------------------------------------------------
C29_SessionReclaimed == session.present ~> ~session.present

\* the session of a call that was never finalized has expired
C29_Witness ==
    /\ ~session.present /\ initOutcome = "ok"
    /\ stops = 0 /\ ~endCallDone

\* ------------------------------------------------------------------------
\* C30: an event of one call leaves the session and the connection of every
\* other call as they were, and a final transcript of a call is dropped only
\* while a turn of that same call is in flight, whatever the other calls do;
\* a turn in flight can always take its next step (it waits for no lock)
\* ------------------------------------------------------------------------
Dropped(c) == conns'[c].dropped > conns[c].dropped

C30_CallsIndependent ==
    [][\A a \in CallSids :
         /\ EventOf(a) =>
              \A b \in CallSids \ {a} :
                  sessions'[b] = sessions[b] /\ conns'[b] = conns[b]
         /\ Dropped(a) => conns[a].tPc # "idle"
         /\ conns[a].tPc # "idle" => ENABLED TurnStepOf(a)]_vars

\* both calls have a turn in flight at once, each with its own session
C30_Witness ==
    /\ conns["CA1"].tPc = "get2" /\ conns["CA2"].tPc = "addUSet"
    /\ sessions["CA1"].present /\ sessions["CA2"].present
    /\ sessions["CA1"].messageHistory # sessions["CA2"].messageHistory

\* ------------------------------------------------------------------------
\* C31: while the reasoning round of a turn is in flight the stored
\* currentStep of the session is 'processing', and once a turn has completed
\* it is 'listening' (or 'ending')
\* ------------------------------------------------------------------------
RoundInFlight == tPc \in {"get2", "exec", "cont", "speak"}

TurnCompleted == tPc = "idle" /\ turns > 0 /\ tOutcome = "ok"

C31_TurnStateFollowsTurn ==
    session.present =>
        /\ RoundInFlight => session.currentStep = "processing"
        /\ TurnCompleted => session.currentStep \in {"listening", "ending"}

\* ------------------------------------------------------------------------
\* C32: no turn is opened while the call is in its greeting: a turn opens,
\* and a reasoning round begins, only once the greeting is in messageHistory
\* and currentStep is 'listening'
\* ------------------------------------------------------------------------
RoundBegins == rounds' = rounds + 1

Greeted ==
    /\ session.present /\ session.currentStep = "listening"
    /\ Message("assistant", 0) \in Entries(session.messageHistory)

C32_NoTurnInGreeting ==
    [][(TurnOpens \/ RoundBegins) => (gPc = "idle" /\ Greeted)]_vars

\* ------------------------------------------------------------------------
\* C33: once finalization (handleEndCall or handleCallEnded) has deleted the
\* session, no later step writes it back into the store
\* ------------------------------------------------------------------------
Finalized == endCallDone \/ (stops > 0 /\ ePc = "idle")

\* a step of generateGreeting or of a turn
InFlightStep == gPc' # gPc \/ tPc' # tPc

C33_SessionStaysAbsent ==
    [][(Finalized /\ ~session.present /\ InFlightStep) =>
         ~session'.present]_vars

\* ------------------------------------------------------------------------
\* C34  When an end_call finalization and a call-ended notification for the
\* same call overlap, the call record ends with the summary, intent and
\* sentiment of the end_call finalization and with the call's transcript.
\* ------------------------------------------------------------------------
\* handleEndCall has run its completeCall, and the handleCallEnded in
\* flight began before handleEndCall returned
EndCallPersisted == tPc = "endDelete" \/ (endCallDone /\ ~eAfterEndCall)

\* the completeCall of handleCallEnded, of handleEndCall
EndedCompletes == ePc = "complete" /\ ePc' = "delete"
EndCallCompletes == tPc = "endComplete" /\ tPc' = "endDelete"

C34_OverlapKeepsAnalysis ==
    [][/\ (EndedCompletes /\ EndCallPersisted /\ callLog.present) =>
            /\ callLog'.summary = callLog.summary
            /\ callLog'.intent = callLog.intent
            /\ callLog'.sentiment = callLog.sentiment
            /\ callLog'.transcript # <<>>
       /\ (EndCallCompletes /\ ePc # "idle" /\ callLog.present) =>
            /\ callLog'.summary # NoText
            /\ callLog'.transcript # <<>>]_vars

\* ------------------------------------------------------------------------
\* C35  Finalizing a call leaves unchanged the call record's link to a
\* reservation created during the call, its transfer flag and its transfer
\* reason.
\* ------------------------------------------------------------------------
\* The call record under the operations of callLogModel (helpers.ts), in
\* the order a call applies them: create, then appendToTranscript,
\* linkReservation, markTransferred and completeCall in any order.
MaxLines == 2                 \* transcript lines appended
MaxReservationId == 2         \* ids of the reservations a call can link

RecordOthers ==
    UNCHANGED <<session, isProcessing, streamStarted, initVars, greetVars,
                turnVars, endVars, auxVars, histVars, countVars>>

\* callLogModel.create (initializeConversation)
RecCreate ==
    /\ ~CallLogCreateFails(callLog)
    /\ callLog' = NewRow
    /\ RecordOthers

\* callLogModel.appendToTranscript (processInput 197-198)
RecAppend ==
    /\ callLog.present /\ Len(callLog.transcript) < MaxLines
    /\ \E speaker \in {"user", "assistant"} :
          callLog' = appendToTranscript(callLog, speaker, 1)
    /\ RecordOthers

\* callLogModel.linkReservation (handleCreateReservation 331)
RecLink ==
    /\ callLog.present
    /\ \E id \in 1..MaxReservationId : callLog' = linkReservation(callLog, id)
    /\ RecordOthers

\* callLogModel.markTransferred (handleTransfer)
RecTransfer ==
    /\ callLog.present
    /\ callLog' = markTransferred(callLog, "reason")
    /\ RecordOthers

\* the sessions handleEndCall and handleCallEnded flatten
Flattened ==
    {[NoSession EXCEPT !.present = TRUE, !.messageHistory = h] :
        h \in {<<>>, <<Message("assistant", 0)>>,
               <<Message("assistant", 0), Message("user", 1)>>}}

\* callLogModel.completeCall as handleEndCall (512-520) and handleCallEnded
\* (550-554) call it
RecComplete ==
    /\ callLog.present
    /\ \E s \in Flattened :
          \/ \E failed \in SUBSET AnalysisCalls :
                callLog' = completeCall(callLog, EndCallData(s, failed))
          \/ \E ev \in StopEvents :
                callLog' = completeCall(callLog,
                               CallEndedData(s, ev.status, ev.duration))
    /\ RecordOthers

RecordNext == RecCreate \/ RecAppend \/ RecLink \/ RecTransfer \/ RecComplete

RecordSpec == Init /\ [][RecordNext]_vars

C36_FailureMeansNothingPersisted ==
    [][(CreateReturns /\ tResult' = "failure") =>
         reservations' = reservations]_vars

\* ------------------------------------------------------------------------
\* C37  After a turn that ended the call through end_call has completed,
\* the transcript of the call record is the flattened messageHistory in
\* order, each user utterance appearing exactly once; nothing is appended
\* to the record after finalization.
\* ------------------------------------------------------------------------
\* the lines of transcript `tr` that carry the user utterance of `turn`
UserLines(tr, turn) ==
    {i \in 1..Len(tr) : tr[i].turn = turn /\ tr[i].speaker \in {"user", "USER"}}

\* the turn that called end_call has returned; no call-ended notification
EndCallTurnDone == endCallDone /\ tPc = "idle" /\ stops = 0

C37_TranscriptIsHistory ==
    /\ [](EndCallTurnDone =>
            \A i \in 1..Len(callLog.transcript) :
               Cardinality(UserLines(callLog.transcript,
                                     callLog.transcript[i].turn)) <= 1)
    /\ [][(endCallDone /\ stops = 0) =>
             callLog'.transcript = callLog.transcript]_vars

\* ------------------------------------------------------------------------
\* The reservation store under two calls (src/models/reservation.ts): the
\* rows of one date, each call with its resolved caller.  No blocked_times
\* row covers the date.  A time of day is in minutes.
\* ------------------------------------------------------------------------
MaxRows == 3                            \* reservations inserted
MAX_RESERVATIONS_PER_SLOT == 2          \* process.env...|| '2'
HalfHour == 30                          \* interval '30 minutes'
NoTime == -1                            \* no slot was reported available

\* 14:00, 14:30, 15:00
SlotTimes == {840, 870, 900}

\* session.customer.id of the session of call k
CustomerOf(k) == IF k = "CA1" THEN 1 ELSE 2

rows == pair.rows           \* table reservations; the id of a row is its index
checked == pair.checked     \* per call: the slot its last check_availability
                            \* reported available

\* two calls in progress, no reservation on the date yet
TwoBookings ==
    pair = [rows |-> <<>>, checked |-> [k \in CallSids |-> NoTime]]

\* SELECT COUNT(*) ... WHERE reservation_time BETWEEN $2 - 30 minutes AND
\* $2 + 30 minutes AND status NOT IN ('cancelled', 'no-show')
currentBookings(rs, time) ==
    Cardinality({i \in 1..Len(rs) :
                   /\ rs[i].time >= time - HalfHour
                   /\ rs[i].time <= time + HalfHour
                   /\ rs[i].status \notin {"cancelled", "no-show"}})

\* checkAvailability: available unless currentBookings >= maxPerSlot
available(rs, time) ==
    ~(currentBookings(rs, time) >= MAX_RESERVATIONS_PER_SLOT)

\* reservationModel.create: INSERT, status DEFAULT 'pending'
create(rs, customerId, time) ==
    Append(rs, [customer |-> customerId, time |-> time, status |-> "pending"])

\* reservationModel.modify: UPDATE reservations SET ... WHERE id = $n
modify(rs, id, time) ==
    IF id \in 1..Len(rs) THEN [rs EXCEPT ![id].time = time] ELSE rs

\* reservationModel.cancel: UPDATE ... SET status = 'cancelled' WHERE id = $1
cancel(rs, id) ==
    IF id \in 1..Len(rs) THEN [rs EXCEPT ![id].status = "cancelled"] ELSE rs

\* the one call and the availability search are not looked at
BookingOthers == UNCHANGED <<lineVars, availVars>>

\* check_availability in call k for a valid date and time
CheckOf(k) ==
    /\ \E time \in SlotTimes :
          pair' = [pair EXCEPT !.checked[k] =
                      IF available(rows, time) THEN time ELSE NoTime]
    /\ BookingOthers

\* create_reservation in call k for the slot reported available: the row
\* is inserted for the caller of the call (the handler's steps after the
\* insert change no reservation)
CreateOf(k) ==
    /\ checked[k] # NoTime /\ Len(rows) < MaxRows
    /\ pair' = [pair EXCEPT
                  !.rows = create(@, CustomerOf(k), checked[k]),
                  !.checked[k] = NoTime]
    /\ BookingOthers

\* modify_reservation in call k: handleModifyReservation(args) with
\* reservation_id and new_time
ModifyOf(k) ==
    /\ \E id \in 1..MaxRows, time \in SlotTimes :
          pair' = [pair EXCEPT !.rows = modify(@, id, time)]
    /\ BookingOthers

\* cancel_reservation in call k, had it been dispatched to
\* handleCancleReservation(args) with reservation_id
CancelOf(k) ==
    /\ \E id \in 1..MaxRows, fails \in BOOLEAN :
          pair' = IF handleCancleReservation(id \in 1..Len(rows), fails)
                  THEN [pair EXCEPT !.rows = cancel(@, id)]
                  ELSE pair
    /\ BookingOthers

BookingInit == CallInit /\ AvailOff /\ TwoBookings

\* two calls that check and book
BookingNext == \E k \in CallSids : CheckOf(k) \/ CreateOf(k)

BookingSpec == BookingInit /\ [][BookingNext]_vars

\* two calls that also modify and cancel
ManageNext ==
    \E k \in CallSids :
       CheckOf(k) \/ CreateOf(k) \/ ModifyOf(k) \/ CancelOf(k)

ManageSpec == BookingInit /\ [][ManageNext]_vars

\* ------------------------------------------------------------------------
\* C38  modify_reservation and cancel_reservation invoked in a call change
\* only reservations of that call's resolved caller: a reservation of
\* another customer is left unchanged.
\* ------------------------------------------------------------------------
C38_OnlyOwnReservations ==
    [][\A k \in CallSids :
         (ModifyOf(k) \/ CancelOf(k)) =>
            \A id \in 1..Len(rows) :
               rows[id].customer # CustomerOf(k) => rows'[id] = rows[id]]_vars

\* ------------------------------------------------------------------------
\* C39  The number of active reservations within 30 minutes of any slot
\* never exceeds MAX_RESERVATIONS_PER_SLOT when every create_reservation
\* follows a check_availability that reported the slot available, also
\* when two calls book the same slot concurrently.
\* ------------------------------------------------------------------------
\* stated for the slot a create_reservation books, at the time it books it
C39_SlotCapacity ==
    [][\A k \in CallSids :
         CreateOf(k) =>
            currentBookings(rows', checked[k]) <= MAX_RESERVATIONS_PER_SLOT]_vars

\* ------------------------------------------------------------------------
\* C40  For a well-formed, non-past date and HH:MM time validateReservation
\* accepts exactly when the time of day lies between the opening and the
\* closing hour inclusive, under the default hours as under configured
\* ones, and agrees with the hour range of the alternative-slot search.
\* ------------------------------------------------------------------------
\* the arguments pass every test of validateReservation but that of the
\* business hours
WellFormed ==
    /\ aArgs.date.shape /\ aArgs.date.real /\ RealTime(aArgs.time)
    /\ ~isDateInPast(aArgs.date, aEnv)
    /\ ~(aArgs.date.day = 0 /\ isTimeInPast(aArgs.time, aEnv))

\* the time of day lies between the opening and the closing time
WithinHours ==
    /\ TimeOfDay(aArgs.time) >= TimeOfDay(OpeningTime(aEnv))
    /\ TimeOfDay(aArgs.time) <= TimeOfDay(ClosingTime(aEnv))

C40_AcceptsWithinHours ==
    [][(aPc = "idle" /\ aPc' # "idle" /\ WellFormed) =>
         LET accepted == validateReservation(aArgs.date, aArgs.time, aEnv)
                            = "valid"
         IN  /\ accepted <=> WithinHours
             /\ MinutesOf(aArgs.time) = 0 =>
                   (accepted <=> InHours(HoursOf(aArgs.time), aEnv))]_vars

====
